---- MODULE Spec2Model ----
(***************************************************************************)
(* A model of the FinSight ML service (src/ml-service): the sufficiency    *)
(* gate of DataFetcher, the analytical operations of the forecast,         *)
(* anomaly, budget, goal and insights services, and the external           *)
(* collaborators they call (the transaction store, the time-series model,  *)
(* the outlier model, the remote narrative capability).                    *)
(*                                                                         *)
(* Text is modelled as a sequence of string tokens (an f-string is the     *)
(* concatenation of its literal parts and its formatted values), so that   *)
(* "contains verbatim" is sub-sequence containment.                        *)
(***************************************************************************)
EXTENDS Integers, Sequences, FiniteSets, TLC

VARIABLES
    \* ---- pure-function harness (one call of a static function)
    args,        \* the arguments of the call
    ret,         \* its return value, NoValue before the call
    \* ---- the external collaborators
    store,       \* the transactions collection of the one user (insertion order)
    goalsStore,  \* the user's active goals
    writes,      \* how many concurrent modifications of the store have happened
    now,         \* datetime.now(), in ticks
    \* ---- the interpreter process
    sys_stderr,  \* the stream sys.stderr names
    closed,      \* the streams that have been closed
    threads,     \* per thread running get_category_forecast: its position and
                 \* its locals
    \* ---- one request in flight
    op,          \* the public operation being executed, "idle" when none
    pc,          \* the position inside the operation
    params,      \* the request's parameters
    df,          \* the local DataFrame of the operation
    sufficiency, \* the local gate verdict of the operation
    work,        \* the loop state and the intermediate locals of the operation
    context,     \* InsightsService._gather_financial_context's context dict
    result,      \* the envelope the operation returned
    escaped,     \* an exception propagated past the operation's boundary
    \* ---- history of the request (what the collaborators saw)
    gateEvals,   \* the evaluations of the sufficiency gate: by which analysis,
                 \* on which sample, with which verdict
    derivations, \* the fits and statistics computed: by which analysis, from
                 \* which sample
    fits,        \* per series: how many times the time-series model was fitted
    scored,      \* how many times the outlier model was fitted
    remoteCalls, \* how many times the remote narrative capability was invoked
    called       \* the sub-analyses the aggregator has invoked, in order

pureVars == <<args, ret>>
procVars == <<sys_stderr, closed, threads>>
envVars == <<store, goalsStore, writes, now, sys_stderr, closed, threads>>
reqVars == <<op, pc, params, df, sufficiency, work, context, result, escaped>>
histVars == <<gateEvals, derivations, fits, scored, remoteCalls, called>>
vars == <<args, ret, store, goalsStore, writes, now, sys_stderr, closed, threads,
          op, pc, params, df, sufficiency, work, context, result, escaped,
          gateEvals, derivations, fits, scored, remoteCalls, called>>

NoValue == [none |-> TRUE]

\* An exception in flight: what a computation yields instead of a value
Raise(e) == [exception |-> e]
IsRaise(x) == DOMAIN x = {"exception"}

----------------------------------------------------------------------------
(* Bounds of the model *)

\* longest sample of the pure-function harness
MaxLen == 3
\* last calendar day a harness transaction may be dated on (days 0..MaxDay)
MaxDay == 2
\* largest threshold the harness passes to the gate
MaxThr == 2
\* concurrent modifications of the store during one run
MaxWrites == 1
\* the calendar day the run happens on
NowDay == 45
\* longest forecast horizon a request asks for (forecast_days in 0..MaxHorizon)
MaxHorizon == 2

\* The resolution of a timestamp: ticks per calendar day (pandas Timestamps
\* carry a time of day; Timedelta.days counts whole days only).
TicksPerDay == 2

----------------------------------------------------------------------------
(* config/ml_config.py *)

MIN_TRANSACTIONS == 30
MIN_EXPENSES == 20
FORECAST_MIN_DAYS == 30
ANOMALY_MIN_TRANSACTIONS == 30
BUDGET_MIN_DAYS == 30
INSIGHTS_MIN_DAYS == 30
GOALS_MIN_MONTHS == 1

----------------------------------------------------------------------------
(* Transactions and samples (DataFrames) *)

Max(a, b) == IF a >= b THEN a ELSE b
Min(a, b) == IF a <= b THEN a ELSE b

RECURSIVE SeqMax(_)
SeqMax(s) == IF Len(s) = 1 THEN s[1] ELSE Max(s[1], SeqMax(Tail(s)))

RECURSIVE SeqMin(_)
SeqMin(s) == IF Len(s) = 1 THEN s[1] ELSE Min(s[1], SeqMin(Tail(s)))

RECURSIVE SelectSeqBy(_, _)
\* df[mask]: the rows whose index is in keep, in order
SelectSeqBy(s, keep) ==
    IF s = <<>> THEN <<>>
    ELSE LET n == Len(s)
             front == SelectSeqBy(SubSeq(s, 1, n - 1), keep)
         IN IF n \in keep THEN Append(front, s[n]) ELSE front

Dates(d) == [i \in 1..Len(d) |-> d[i].date]

\* pandas: Timedelta.days, the whole days of a difference of two timestamps
TimedeltaDays(delta) == delta \div TicksPerDay

\* pandas: Timestamp.date() / strftime('%Y-%m-%d'), the calendar day
CalendarDay(ts) == ts \div TicksPerDay

Expenses(d) == SelectSeqBy(d, {i \in 1..Len(d) : d[i].type = "expense"})

RECURSIVE InsertByDate(_, _)
InsertByDate(sorted, t) ==
    IF sorted = <<>> THEN <<t>>
    ELSE IF sorted[Len(sorted)].date <= t.date THEN Append(sorted, t)
    ELSE Append(InsertByDate(SubSeq(sorted, 1, Len(sorted) - 1), t), sorted[Len(sorted)])

RECURSIVE SortByDate(_)
\* df.sort_values('date')
SortByDate(s) ==
    IF s = <<>> THEN <<>>
    ELSE InsertByDate(SortByDate(SubSeq(s, 1, Len(s) - 1)), s[Len(s)])

----------------------------------------------------------------------------
(* DataFetcher.check_data_sufficiency *)

\* only the first reason is reported
Join_first(reasons) == IF reasons = <<>> THEN <<>> ELSE reasons[1]

RECURSIVE Join(_)
\* "; ".join(reasons)
Join(reasons) ==
    IF reasons = <<>> THEN <<>>
    ELSE IF Len(reasons) = 1 THEN reasons[1]
    ELSE reasons[1] \o <<"; ">> \o Join(Tail(reasons))

check_data_sufficiency_anyof(d, min_days, min_transactions, min_expenses) ==
    IF d = <<>>
    THEN [sufficient |-> FALSE,
          reason |-> <<"No transaction data found">>,
          days_of_data |-> 0,
          total_transactions |-> 0,
          expense_transactions |-> 0]
    ELSE LET date_range == TimedeltaDays(SeqMax(Dates(d)) - SeqMin(Dates(d))) + 1
             total_transactions == Len(d)
             expense_transactions == Len(Expenses(d))
         IN [sufficient |-> date_range >= min_days
                              \/ total_transactions >= min_transactions
                              \/ expense_transactions >= min_expenses,
             reason |-> <<"Data is sufficient">>,
             days_of_data |-> date_range,
             total_transactions |-> total_transactions,
             expense_transactions |-> expense_transactions,
             oldest_transaction |-> CalendarDay(SeqMin(Dates(d))),
             newest_transaction |-> CalendarDay(SeqMax(Dates(d)))]

\* the gate without its empty-sample return: an empty sample is measured as
\* 0 days, 0 rows and 0 expense rows against the thresholds
check_data_sufficiency_measured(d, min_days, min_transactions, min_expenses) ==
    [sufficient |-> 0 >= min_days /\ Len(d) >= min_transactions
                        /\ Len(Expenses(d)) >= min_expenses,
     reason |-> IF 0 >= min_days /\ Len(d) >= min_transactions
                      /\ Len(Expenses(d)) >= min_expenses
                THEN <<"Data is sufficient">>
                ELSE <<"No transaction data found">>,
     days_of_data |-> 0,
     total_transactions |-> Len(d),
     expense_transactions |-> Len(Expenses(d))]

check_data_sufficiency(d, min_days, min_transactions, min_expenses) ==
    IF d = <<>>
    THEN [sufficient |-> FALSE,
          reason |-> <<"No transaction data found">>,
          days_of_data |-> 0,
          total_transactions |-> 0,
          expense_transactions |-> 0]
    ELSE LET date_range == TimedeltaDays(SeqMax(Dates(d)) - SeqMin(Dates(d))) + 1
             total_transactions == Len(d)
             expense_transactions == Len(Expenses(d))
             has_enough_days == date_range >= min_days
             has_enough_transactions == total_transactions >= min_transactions
             has_enough_expenses == expense_transactions >= min_expenses
             sufficient == has_enough_days /\ has_enough_transactions
                              /\ has_enough_expenses
             reasons ==
                 (IF ~has_enough_days
                  THEN << <<"Data spans only ", ToString(date_range),
                            " days (need ", ToString(min_days), "+)">> >>
                  ELSE <<>>)
                 \o
                 (IF ~has_enough_transactions
                  THEN << <<"Only ", ToString(total_transactions),
                            " transactions (need ", ToString(min_transactions), "+)">> >>
                  ELSE <<>>)
                 \o
                 (IF ~has_enough_expenses
                  THEN << <<"Only ", ToString(expense_transactions),
                            " expense transactions (need ", ToString(min_expenses), "+)">> >>
                  ELSE <<>>)
         IN [sufficient |-> sufficient,
             reason |-> IF reasons # <<>> THEN Join(reasons)
                        ELSE <<"Data is sufficient">>,
             days_of_data |-> date_range,
             total_transactions |-> total_transactions,
             expense_transactions |-> expense_transactions,
             oldest_transaction |-> CalendarDay(SeqMin(Dates(d))),
             newest_transaction |-> CalendarDay(SeqMax(Dates(d)))]

----------------------------------------------------------------------------
(* DataFetcher.get_user_transactions: the rows of the user, sorted by date.
   dbError: the store raised (no connection, a malformed id); the function
   catches it and returns an empty DataFrame. *)

get_user_transactions(st, dbError, days, use_all_data, nowTs) ==
    IF dbError THEN <<>>
    ELSE LET matched ==
                 IF use_all_data THEN st
                 ELSE SelectSeqBy(st, {i \in 1..Len(st) :
                          /\ st[i].date >= nowTs - days * TicksPerDay
                          /\ st[i].date <= nowTs})
         IN SortByDate(matched)

\* the rows of d with the given category
OfCategory(d, category) ==
    SelectSeqBy(d, {i \in 1..Len(d) : d[i].category = category})

RECURSIVE Unique(_)
\* Series.unique(): the distinct values in order of first appearance
Unique(s) ==
    IF s = <<>> THEN <<>>
    ELSE LET front == Unique(SubSeq(s, 1, Len(s) - 1))
         IN IF \E i \in 1..Len(front) : front[i] = s[Len(s)]
            THEN front ELSE Append(front, s[Len(s)])

Categories(d) == Unique([i \in 1..Len(d) |-> d[i].category])

RECURSIVE SumSeq(_)
SumSeq(s) == IF s = <<>> THEN 0 ELSE s[1] + SumSeq(Tail(s))

Amounts(d) == [i \in 1..Len(d) |-> d[i].amount]

\* the total amount of the rows of d dated on calendar day `day`
SpentOn(d, day) ==
    SumSeq(Amounts(SelectSeqBy(d, {i \in 1..Len(d) : CalendarDay(d[i].date) = day})))

\* groupby(date.dt.date)['amount'].sum(): one row per day that has rows
DailyTotals(d) ==
    LET days == Unique([i \in 1..Len(d) |-> CalendarDay(d[i].date)])
    IN [k \in 1..Len(days) |-> [ds |-> days[k], y |-> SpentOn(d, days[k])]]

----------------------------------------------------------------------------
(* Fixed-point arithmetic: money is kept in cents *)

Cents == 100

RECURSIVE Isqrt(_)
\* the integer square root
Isqrt(n) == IF n < 4 THEN (IF n = 0 THEN 0 ELSE 1)
            ELSE LET half == 2 * Isqrt(n \div 4)
                 IN IF (half + 1) * (half + 1) <= n THEN half + 1 ELSE half

RECURSIVE MulDivMod(_, _, _)
\* x * num as [q, r] with x * num = q * den + r and 0 <= r < den, computed by
\* doubling so that no intermediate product leaves the machine integers
MulDivMod(x, num, den) ==
    IF num = 0 THEN [q |-> 0, r |-> 0]
    ELSE LET half == MulDivMod(x, num \div 2, den)
             r2 == 2 * half.r + (IF num % 2 = 1 THEN x % den ELSE 0)
             q2 == 2 * half.q + (IF num % 2 = 1 THEN x \div den ELSE 0)
         IN [q |-> q2 + r2 \div den, r |-> r2 % den]

\* round(x * num / den), halves to the even neighbour
\* (x >= 0, num >= 0, den > 0)
MulDivRound(x, num, den) ==
    LET qr == MulDivMod(x, num, den)
    IN IF 2 * qr.r > den THEN qr.q + 1
       ELSE IF 2 * qr.r = den THEN qr.q + (qr.q % 2)
       ELSE qr.q

\* Series.mean() of integer values, in cents
MeanCents(ys) == (SumSeq(ys) * Cents) \div Len(ys)

\* Series.std() (sample standard deviation, ddof = 1), in cents
StdCents(ys) ==
    LET m == MeanCents(ys)
        sq == [i \in 1..Len(ys) |-> (ys[i] * Cents - m) * (ys[i] * Cents - m)]
    IN Isqrt(SumSeq(sq) \div (Len(ys) - 1))

\* the calendar month of a timestamp (dt.to_period('M'); year * 12 + month)
DaysPerMonth == 30
MonthOf(ts) == CalendarDay(ts) \div DaysPerMonth

Num(v) == [nan |-> FALSE, v |-> v]
NaN == [nan |-> TRUE, v |-> 0]

\* the total amount, in cents, of the rows of d of the given type and month
MonthTotal(d, type, month) ==
    Cents * SumSeq(Amounts(SelectSeqBy(d, {i \in 1..Len(d) :
                       d[i].type = type /\ MonthOf(d[i].date) = month})))

\* Series.std() of values in cents: NaN for a single value
StdOf(vs) ==
    IF Len(vs) < 2 THEN NaN
    ELSE LET m == SumSeq(vs) \div Len(vs)
             sq == [i \in 1..Len(vs) |-> (vs[i] - m) * (vs[i] - m)]
         IN Num(Isqrt(SumSeq(sq) \div (Len(vs) - 1)))

----------------------------------------------------------------------------
(* ForecastService *)

\* prepare_data: the daily expense series, days without rows filled with 0
prepare_data(d) ==
    IF d = <<>> THEN <<>>
    ELSE LET expenses == Expenses(d)
         IN IF expenses = <<>> THEN <<>>
            ELSE LET first == CalendarDay(SeqMin(Dates(expenses)))
                     last == CalendarDay(SeqMax(Dates(expenses)))
                 IN [k \in 1..(last - first + 1) |->
                        [ds |-> first + k - 1, y |-> SpentOn(expenses, first + k - 1)]]

Ys(series) == [k \in 1..Len(series) |-> series[k].y]

\* the fallback of train_and_predict: the rows of future_forecast, in cents
SimpleForecast(series, forecast_days) ==
    LET historical_avg == MeanCents(Ys(series))
        historical_std == StdCents(Ys(series))
        recent_avg == MeanCents(Ys(SubSeq(series, Len(series) - 6, Len(series))))
        \* historical_avg * trend, with trend = (recent_avg - historical_avg) / historical_avg
        drift == IF Len(series) > 7 /\ historical_avg > 0
                 THEN recent_avg - historical_avg ELSE 0
        start_date == series[Len(series)].ds + 1
    IN [k \in 1..forecast_days |->
           LET i == k - 1
               predicted == historical_avg + (drift * i) \div 30
           IN [ds |-> start_date + i,
               yhat |-> Max(0, predicted),
               yhat_lower |-> Max(0, predicted - historical_std),
               yhat_upper |-> predicted + historical_std]]

\* what the time-series model predicts is its own business: level is the
\* value it predicts, in cents (it may be negative)
\* and yhat_lower, yhat_upper its uncertainty interval around that value
ProphetForecast(series, forecast_days, level) ==
    [k \in 1..Max(0, forecast_days) |->
        [ds |-> series[Len(series)].ds + k,
         yhat |-> level,
         yhat_lower |-> level - 10 * Cents,
         yhat_upper |-> level + 10 * Cents]]

\* the response rows without the clamp of the lower bound
ForecastData_unclamped(future_forecast) ==
    [k \in 1..Len(future_forecast) |->
        [date |-> future_forecast[k].ds,
         predicted_spending |-> Max(0, future_forecast[k].yhat),
         lower_bound |-> future_forecast[k].yhat_lower,
         upper_bound |-> Max(0, future_forecast[k].yhat_upper)]]

\* the response rows of train_and_predict
ForecastData(future_forecast) ==
    [k \in 1..Len(future_forecast) |->
        [date |-> future_forecast[k].ds,
         predicted_spending |-> Max(0, future_forecast[k].yhat),
         lower_bound |-> Max(0, future_forecast[k].yhat_lower),
         upper_bound |-> Max(0, future_forecast[k].yhat_upper)]]

\* train_and_predict up to the span check: the early return, or NoValue
train_and_predict_check(series) ==
    IF series = <<>>
    THEN [success |-> FALSE,
          error |-> <<"No transaction data found">>,
          forecast |-> <<>>,
          statistics |-> NoValue]
    ELSE LET date_range == (series[Len(series)].ds - series[1].ds) + 1
         IN IF date_range < FORECAST_MIN_DAYS
            THEN [success |-> FALSE,
                  error |-> <<"Insufficient data for forecasting (data spans ",
                              ToString(date_range), " days, need ",
                              ToString(FORECAST_MIN_DAYS), "+ days)">>,
                  forecast |-> <<>>,
                  statistics |-> NoValue,
                  data_info |-> [days_of_data |-> date_range,
                                 total_data_points |-> Len(series)]]
            ELSE NoValue

\* Series.mean() of values already in cents (NaN, shown as 0 by max(0, .),
\* for no rows)
MeanOf(vs) == IF vs = <<>> THEN 0 ELSE SumSeq(vs) \div Len(vs)

\* train_and_predict after the span check, inside the outer try. prophet:
\* what the model did, [raised |-> TRUE] or [raised |-> FALSE, level |-> ..].
train_and_predict_forecast(series, forecast_days, prophet) ==
    LET use_simple_forecast == prophet.raised
        future_forecast ==
            IF use_simple_forecast THEN SimpleForecast(series, forecast_days)
            ELSE ProphetForecast(series, forecast_days, prophet.level)
        yhats == [k \in 1..Len(future_forecast) |-> future_forecast[k].yhat]
    IN IF use_simple_forecast /\ future_forecast = <<>>
       \* pd.DataFrame([]) has no columns: future_forecast['yhat'] raises KeyError
       THEN Raise(<<"'yhat'">>)
       ELSE [success |-> TRUE,
             forecast |-> ForecastData(future_forecast),
             statistics |->
                 [historical_avg_daily |-> MeanCents(Ys(series)),
                  forecast_avg_daily |-> Max(0, MeanOf(yhats)),
                  \* in hundredths of a percent; the mean of no rows is NaN
                  trend_percentage |->
                      IF yhats = <<>> THEN NaN
                      ELSE IF MeanCents(Ys(series)) > 0
                      THEN Num(((MeanOf(yhats) - MeanCents(Ys(series))) * 100 * Cents)
                                   \div MeanCents(Ys(series)))
                      ELSE Num(0),
                  total_predicted_spending |-> Max(0, SumSeq(yhats)),
                  forecast_period_days |-> forecast_days,
                  data_points_used |-> Len(series)]]

\* the outer handler of train_and_predict
train_and_predict_except(out) ==
    IF IsRaise(out)
    THEN [success |-> FALSE,
          error |-> out.exception,
          forecast |-> <<>>,
          statistics |-> NoValue]
    ELSE out

\* the whole of train_and_predict on a fetched sample
train_and_predict(d, forecast_days, prophet) ==
    LET series == prepare_data(d)
        early == train_and_predict_check(series)
    IN IF early # NoValue THEN early
       ELSE train_and_predict_except(
                train_and_predict_forecast(series, forecast_days, prophet))

\* whether train_and_predict on d reaches the model
ForecastFits(d) == train_and_predict_check(prepare_data(d)) = NoValue

\* get_category_forecast, one category inside the loop. outcome: what the
\* model did for this category's series:
\*   "ok"             fit and predict succeed
\*   "attr_ok"        fit raises AttributeError, the second fit succeeds
\*   "attr_raise"     fit raises AttributeError, the second fit raises too
\*   "raise"          fit raises another exception
\*   "predict_raise"  fit succeeds, predict raises
\* Yields [entry, fitCalls] or [exception, fitCalls].
category_forecast_one(category_data, forecast_days, outcome) ==
    LET daily_data == DailyTotals(category_data)
    IN IF Len(daily_data) < 7
       THEN [entry |-> [avg_spending |-> MeanCents(Amounts(category_data)),
                        total_historical |-> SumSeq(Amounts(category_data)) * Cents,
                        predicted_total |->
                            MeanCents(Amounts(category_data)) * forecast_days],
             fitCalls |-> 0]
       ELSE LET fitCalls == IF outcome \in {"attr_ok", "attr_raise"} THEN 2 ELSE 1
            IN IF outcome \in {"attr_raise", "raise", "predict_raise"}
               THEN [exception |-> <<"model error">>, fitCalls |-> fitCalls]
               ELSE [entry |-> [avg_spending |-> MeanCents(Ys(daily_data)),
                                total_historical |->
                                    SumSeq(Amounts(category_data)) * Cents,
                                predicted_total |-> 0],
                     fitCalls |-> fitCalls]

RECURSIVE category_forecast_loop(_, _, _, _, _)
\* the for loop of get_category_forecast over categories[k..]: the forecasts
\* so far and the fit calls made per category; the first exception ends it
category_forecast_loop(expenses, categories, forecast_days, outcomes, k) ==
    IF k > Len(categories)
    THEN [forecasts |-> <<>>, fitted |-> <<>>, exception |-> NoValue]
    ELSE LET category == categories[k]
             one == category_forecast_one(OfCategory(expenses, category),
                                          forecast_days, outcomes[category])
             here == <<[series |-> category, calls |-> one.fitCalls]>>
         IN IF "exception" \in DOMAIN one
            THEN [forecasts |-> <<>>, fitted |-> here,
                  exception |-> Raise(one.exception)]
            ELSE LET rest == category_forecast_loop(expenses, categories,
                                                    forecast_days, outcomes, k + 1)
                 IN [forecasts |-> <<[category |-> category, forecast |-> one.entry]>>
                                      \o rest.forecasts,
                     fitted |-> here \o rest.fitted,
                     exception |-> rest.exception]

\* the outer handler of get_category_forecast
get_category_forecast_except(out) ==
    IF IsRaise(out)
    THEN [success |-> FALSE, error |-> out.exception, forecasts |-> <<>>]
    ELSE out

\* get_category_forecast on a fetched sample: [envelope, fitted]
get_category_forecast(d, forecast_days, outcomes) ==
    IF d = <<>>
    THEN [envelope |-> [success |-> FALSE,
                        error |-> <<"No transaction data">>,
                        forecasts |-> <<>>],
          fitted |-> <<>>]
    ELSE LET expenses == Expenses(d)
             loop == category_forecast_loop(expenses, Categories(expenses),
                                            forecast_days, outcomes, 1)
         IN [envelope |->
                 get_category_forecast_except(
                     IF loop.exception # NoValue THEN loop.exception
                     ELSE [success |-> TRUE,
                           forecasts |-> loop.forecasts,
                           forecast_period_days |-> forecast_days]),
             fitted |-> loop.fitted]

----------------------------------------------------------------------------
(* AnomalyService *)

\* Series.dt.dayofweek: Monday is 0 and Sunday is 6; calendar day 0 is a Monday
day_of_week(ts) == CalendarDay(ts) % 7

\* the denominator of the rolling means: the least common multiple of 1..7
RollingScale == 420

\* prepare_features: rolling(window = 7, min_periods = 1) over the rows, the
\* whole-sample mean when there are no more than 7 rows; the rolling mean is
\* kept as RollingScale times its value
prepare_features(expenses) ==
    LET ys == Amounts(expenses)
        n == Len(ys)
        first(k) == Max(1, k - 6)
        window(k) == SumSeq(SubSeq(ys, first(k), k))
        count(k) == k - first(k) + 1
    IN [k \in 1..n |->
           [date |-> expenses[k].date,
            amount |-> ys[k],
            category |-> expenses[k].category,
            description |-> expenses[k].description,
            day_of_week |-> day_of_week(expenses[k].date),
            rolling_mean_7d |->
                IF n > 7 THEN window(k) * (RollingScale \div count(k))
                ELSE (SumSeq(ys) * RollingScale) \div n,
            \* amount_vs_mean > 3 (0 / 0 is filled with 0)
            far_above_recent |-> n > 7 /\ ys[k] * count(k) > 3 * window(k)]]

\* row.amount > mean_amount * factor, with mean_amount the mean of the
\* rolling means of all the rows
ExceedsMean(row, features, factor) ==
    row.amount * RollingScale * Len(features)
        > factor * SumSeq([k \in 1..Len(features) |-> features[k].rolling_mean_7d])

\* round(row.amount / mean_amount, 1) as text
RatioText(row, features) ==
    LET total == SumSeq([k \in 1..Len(features) |-> features[k].rolling_mean_7d])
        tenths == MulDivRound(row.amount * RollingScale * Len(features), 10, total)
    IN <<ToString(tenths \div 10), ".", ToString(tenths % 10)>>

\* a variant of the weekend test on Saturday and Sunday
is_weekend_sat_sun(dow) == dow = 5 \/ dow = 6

\* row['day_of_week'] == 6 or row['day_of_week'] == 0
is_weekend(dow) == dow = 6 \/ dow = 0

\* _generate_anomaly_reason
generate_anomaly_reason(row, features) ==
    LET amount_reason ==
            IF ExceedsMean(row, features, 2)
            THEN <<<<"Amount is ">> \o RatioText(row, features)
                       \o <<"x higher than average">>>>
            ELSE <<>>
        pattern_reason ==
            IF row.far_above_recent
            THEN <<<<"Significant deviation from recent spending pattern">>>>
            ELSE <<>>
        time_reason ==
            IF is_weekend(row.day_of_week) /\ ExceedsMean(row, features, 1)
            THEN <<<<"Unusually high weekend spending">>>>
            ELSE <<>>
        reasons == amount_reason \o pattern_reason \o time_reason
    IN Join(IF reasons = <<>>
            THEN <<<<"Statistical anomaly detected in spending pattern">>>>
            ELSE reasons)

\* detect_anomalies after the gate, inside the outer try. forest: what the
\* outlier model did, [raised |-> TRUE] or [raised |-> FALSE, flagged |-> the
\* indices of the expense rows it labels -1].
detect_anomalies_score(d, days, forest) ==
    LET expenses == Expenses(d)
    IN IF forest.raised THEN Raise(<<"model error">>)
       ELSE LET features == prepare_features(expenses)
                anomalies == SelectSeqBy(features,
                                 forest.flagged \cap (1..Len(expenses)))
            IN [success |-> TRUE,
                anomalies |-> [k \in 1..Len(anomalies) |->
                                  [date |-> CalendarDay(anomalies[k].date),
                                   amount |-> anomalies[k].amount * Cents,
                                   category |-> anomalies[k].category,
                                   description |-> anomalies[k].description,
                                   reason |-> generate_anomaly_reason(
                                                  anomalies[k], features)]],
                statistics |->
                    [total_transactions |-> Len(expenses),
                     anomalies_detected |-> Len(anomalies),
                     total_anomalous_spending |-> SumSeq(Amounts(anomalies)) * Cents,
                     avg_transaction_amount |-> MeanCents(Amounts(expenses)),
                     avg_anomaly_amount |->
                         IF Len(anomalies) > 0 THEN MeanCents(Amounts(anomalies))
                         ELSE 0,
                     period_days |-> days]]

\* the gate of detect_anomalies
detect_anomalies_gate(d) ==
    check_data_sufficiency(d, 30, ANOMALY_MIN_TRANSACTIONS, MIN_EXPENSES)

\* the early return of detect_anomalies
detect_anomalies_insufficient(verdict) ==
    [success |-> FALSE,
     error |-> <<"Insufficient data for anomaly detection: ">> \o verdict.reason,
     anomalies |-> <<>>,
     statistics |-> NoValue,
     data_info |-> verdict]

\* the outer handler of detect_anomalies
detect_anomalies_except(out) ==
    IF IsRaise(out)
    THEN [success |-> FALSE,
          error |-> out.exception,
          anomalies |-> <<>>,
          statistics |-> NoValue]
    ELSE out

\* the whole of detect_anomalies on a fetched sample
detect_anomalies(d, days, forest) ==
    LET verdict == detect_anomalies_gate(d)
    IN IF ~verdict.sufficient THEN detect_anomalies_insufficient(verdict)
       ELSE detect_anomalies_except(detect_anomalies_score(d, days, forest))

RECURSIVE InsertInt(_, _)
InsertInt(sorted, x) ==
    IF sorted = <<>> THEN <<x>>
    ELSE IF x < sorted[1] THEN <<x>> \o sorted
         ELSE <<sorted[1]>> \o InsertInt(Tail(sorted), x)

RECURSIVE SortInts(_)
\* the values in ascending order
SortInts(s) ==
    IF s = <<>> THEN <<>>
    ELSE InsertInt(SortInts(SubSeq(s, 1, Len(s) - 1)), s[Len(s)])

\* Series.quantile(quarters / 4), linear interpolation between the two
\* nearest order statistics, as four times its value
Quantile4(ys, quarters) ==
    LET sorted == SortInts(ys)
        pos == quarters * (Len(ys) - 1)
        lo == pos \div 4
        r == pos % 4
    IN IF r = 0 THEN 4 * sorted[lo + 1]
       ELSE (4 - r) * sorted[lo + 1] + r * sorted[lo + 2]

\* a variant of the fence test that also counts amounts on the fences
is_outlier_inclusive(amount, ys) ==
    LET Q1 == Quantile4(ys, 1)
        Q3 == Quantile4(ys, 3)
        IQR == Q3 - Q1
    IN \/ 8 * amount <= 2 * Q1 - 3 * IQR
       \/ 8 * amount >= 2 * Q3 + 3 * IQR

\* amount < Q1 - 1.5 * IQR or amount > Q3 + 1.5 * IQR, both sides times 8
is_outlier(amount, ys) ==
    LET Q1 == Quantile4(ys, 1)
        Q3 == Quantile4(ys, 3)
        IQR == Q3 - Q1
    IN \/ 8 * amount < 2 * Q1 - 3 * IQR
       \/ 8 * amount > 2 * Q3 + 3 * IQR

\* the rows of one category outside the IQR fences
outliers(category_data) ==
    SelectSeqBy(category_data,
        {i \in 1..Len(category_data) :
            is_outlier(category_data[i].amount, Amounts(category_data))})

\* get_category_anomalies on a fetched sample (its outer handler has nothing
\* to catch: no collaborator is called after the fetch)
get_category_anomalies(d, days) ==
    IF d = <<>>
    THEN [success |-> FALSE, error |-> <<"No transaction data">>,
          categories |-> <<>>]
    ELSE LET expenses == Expenses(d)
             categories == Categories(expenses)
             kept == SelectSeqBy(categories,
                         {k \in 1..Len(categories) :
                             Len(OfCategory(expenses, categories[k])) >= 5})
         IN [success |-> TRUE,
             categories |->
                 [k \in 1..Len(kept) |->
                     LET category_data == OfCategory(expenses, kept[k])
                     IN [category |-> kept[k],
                         total_transactions |-> Len(category_data),
                         outliers_detected |-> Len(outliers(category_data)),
                         avg_amount |-> MeanCents(Amounts(category_data)),
                         max_amount |-> SeqMax(Amounts(category_data)) * Cents,
                         min_amount |-> SeqMin(Amounts(category_data)) * Cents]],
             period_days |-> days]

----------------------------------------------------------------------------
(* BudgetService *)

\* groupby('month')['amount'].sum(): the total, in cents, of every calendar
\* month that has rows, in month order
MonthlySpending(cat_data) ==
    LET months == SortByDate([k \in 1..Len(cat_data) |->
                       [date |-> MonthOf(cat_data[k].date)]])
        distinct == Unique([k \in 1..Len(months) |-> months[k].date])
    IN [k \in 1..Len(distinct) |-> MonthTotal(cat_data, "expense", distinct[k])]

\* a variant of _calculate_trend whose thresholds include exactly 15 percent
calculate_trend_inclusive(monthly_data) ==
    IF Len(monthly_data) < 2 THEN "stable"
    ELSE LET half == Len(monthly_data) \div 2
             first == SubSeq(monthly_data, 1, half)
             second == SubSeq(monthly_data, half + 1, Len(monthly_data))
             first_half_avg == SumSeq(first) * Len(second)
             second_half_avg == SumSeq(second) * Len(first)
         IN IF first_half_avg = 0
            THEN IF second_half_avg > 0 THEN "increasing" ELSE "stable"
            ELSE LET change == (second_half_avg - first_half_avg) * 100
                 IN IF change >= 15 * first_half_avg THEN "increasing"
                    ELSE IF change <= -15 * first_half_avg THEN "decreasing"
                    ELSE "stable"

\* _calculate_trend of the monthly totals
calculate_trend(monthly_data) ==
    IF Len(monthly_data) < 2 THEN "stable"
    ELSE LET half == Len(monthly_data) \div 2
             first == SubSeq(monthly_data, 1, half)
             second == SubSeq(monthly_data, half + 1, Len(monthly_data))
             \* the two averages over the common denominator Len(first) * Len(second)
             first_half_avg == SumSeq(first) * Len(second)
             second_half_avg == SumSeq(second) * Len(first)
         IN IF first_half_avg = 0
            THEN IF second_half_avg > 0 THEN "increasing" ELSE "stable"
            ELSE LET change == (second_half_avg - first_half_avg) * 100
                 IN IF change > 15 * first_half_avg THEN "increasing"
                    ELSE IF change < -15 * first_half_avg THEN "decreasing"
                    ELSE "stable"

\* analyze_spending_patterns on a fetched sample: one entry per category
\* ({} when there is nothing to analyze)
analyze_spending_patterns(d) ==
    IF d = <<>> THEN <<>>
    ELSE LET expenses == Expenses(d)
             categories == Categories(expenses)
         IN [k \in 1..Len(categories) |->
                LET cat_data == OfCategory(expenses, categories[k])
                    monthly_spending == MonthlySpending(cat_data)
                IN [category |-> categories[k],
                    total |-> SumSeq(Amounts(cat_data)) * Cents,
                    mean |-> MeanCents(Amounts(cat_data)),
                    min |-> SeqMin(Amounts(cat_data)) * Cents,
                    max |-> SeqMax(Amounts(cat_data)) * Cents,
                    count |-> Len(cat_data),
                    monthly_avg |-> SumSeq(monthly_spending) \div Len(monthly_spending),
                    monthly_std |-> IF Len(monthly_spending) > 1
                                    THEN StdOf(monthly_spending).v ELSE 0,
                    trend |-> calculate_trend(monthly_spending)]]

\* the multipliers of recommend_budgets, in percent; an unknown approach
\* selects the balanced ones
Multiplier(approach, trend) ==
    IF approach = "conservative"
    THEN (IF trend = "stable" THEN 100 ELSE IF trend = "increasing" THEN 115 ELSE 90)
    ELSE IF approach = "flexible"
    THEN (IF trend = "stable" THEN 120 ELSE IF trend = "increasing" THEN 135 ELSE 110)
    ELSE (IF trend = "stable" THEN 110 ELSE IF trend = "increasing" THEN 125 ELSE 100)

\* round(value / 100), halves to the even neighbour (value >= 0)
RoundHundredth(value) ==
    LET q == value \div 100
        r == value % 100
    IN IF r > 50 \/ (r = 50 /\ q % 2 = 1) THEN q + 1 ELSE q

\* a variant of the recommended amount without the safety buffer
recommended_amount_no_buffer(stats, approach) ==
    RoundHundredth(stats.monthly_avg * Multiplier(approach, stats.trend))

\* the recommended amount of one category, in cents:
\* round(monthly_avg * multiplier + 0.5 * monthly_std, 2)
recommended_amount(stats, approach) ==
    RoundHundredth(stats.monthly_avg * Multiplier(approach, stats.trend)
                   + (IF stats.monthly_std > 0 THEN 50 * stats.monthly_std ELSE 0))

RECURSIVE InsertByAmount(_, _)
InsertByAmount(sorted, r) ==
    IF sorted = <<>> THEN <<r>>
    ELSE IF sorted[1].recommended_amount < r.recommended_amount
         THEN <<r>> \o sorted
         ELSE <<sorted[1]>> \o InsertByAmount(Tail(sorted), r)

RECURSIVE SortByAmount(_)
\* list.sort(key = recommended_amount, reverse = True): stable, highest first
SortByAmount(s) ==
    IF s = <<>> THEN <<>>
    ELSE InsertByAmount(SortByAmount(SubSeq(s, 1, Len(s) - 1)), s[Len(s)])

\* the gate of recommend_budgets: BUDGET_MIN_DAYS is passed for min_days and
\* for min_transactions
recommend_budgets_gate(d) ==
    check_data_sufficiency(d, BUDGET_MIN_DAYS, BUDGET_MIN_DAYS, MIN_EXPENSES)

\* the early return of recommend_budgets
recommend_budgets_insufficient(verdict) ==
    [success |-> FALSE,
     error |-> <<"Insufficient data for budget recommendations: ">>
                   \o verdict.reason,
     recommendations |-> <<>>,
     total_recommended_budget |-> 0,
     data_info |-> verdict]

\* recommend_budgets after the gate, on the sample analyze_spending_patterns
\* fetched
recommend_budgets_recommend(dStats, approach) ==
    LET patterns == analyze_spending_patterns(dStats)
    IN IF patterns = <<>>
       THEN [success |-> FALSE,
             error |-> <<"Insufficient spending data for budget recommendations">>,
             recommendations |-> <<>>,
             total_recommended_budget |-> 0]
       ELSE LET recommendations ==
                    [k \in 1..Len(patterns) |->
                        [category |-> patterns[k].category,
                         recommended_amount |-> recommended_amount(patterns[k], approach),
                         current_monthly_avg |-> patterns[k].monthly_avg,
                         trend |-> patterns[k].trend,
                         transaction_count |-> patterns[k].count]]
            IN [success |-> TRUE,
                approach |-> approach,
                recommendations |-> SortByAmount(recommendations),
                total_recommended_budget |->
                    SumSeq([k \in 1..Len(recommendations) |->
                               recommendations[k].recommended_amount]),
                analysis_period_months |-> 6]

\* the whole of recommend_budgets: the gate on one fetch, the statistics on
\* the fetch of analyze_spending_patterns
recommend_budgets(dGate, dStats, approach) ==
    LET verdict == recommend_budgets_gate(dGate)
    IN IF ~verdict.sufficient THEN recommend_budgets_insufficient(verdict)
       ELSE recommend_budgets_recommend(dStats, approach)

\* _calculate_priority: variability = monthly_std / monthly_avg
calculate_priority(stats) ==
    LET positive == stats.monthly_avg > 0
    IN IF stats.monthly_avg > 500 * Cents
          \/ (positive /\ 2 * stats.monthly_std > stats.monthly_avg)
       THEN "high"
       ELSE IF stats.monthly_avg > 200 * Cents
               \/ (positive /\ 10 * stats.monthly_std > 3 * stats.monthly_avg)
       THEN "medium"
       ELSE "low"

\* the adjustment of optimize_budget_allocation by priority, in tenths
PriorityFactor(priority) ==
    IF priority = "high" THEN 11 ELSE IF priority = "low" THEN 9 ELSE 10

\* the allocation of one category before normalization, in cents:
\* round(total_budget * proportion * factor, 2)
allocated_amount(stats, total_spending, total_budget) ==
    IF total_spending > 0
    THEN MulDivRound(total_budget,
                     stats.monthly_avg * PriorityFactor(calculate_priority(stats)),
                     total_spending * 10)
    ELSE 0

\* the normalization of optimize_budget_allocation: every allocation times
\* total_budget / current_total, rounded to cents
normalize_allocations(allocations, total_budget) ==
    LET current_total ==
            SumSeq([k \in 1..Len(allocations) |-> allocations[k].allocated_amount])
    IN IF current_total > 0
       THEN [k \in 1..Len(allocations) |->
                [allocations[k] EXCEPT !.allocated_amount =
                    MulDivRound(allocations[k].allocated_amount,
                                total_budget, current_total)]]
       ELSE allocations

RECURSIVE InsertByAllocated(_, _)
InsertByAllocated(sorted, a) ==
    IF sorted = <<>> THEN <<a>>
    ELSE IF sorted[1].allocated_amount < a.allocated_amount
         THEN <<a>> \o sorted
         ELSE <<sorted[1]>> \o InsertByAllocated(Tail(sorted), a)

RECURSIVE SortByAllocated(_)
\* list.sort(key = allocated_amount, reverse = True): stable, highest first
SortByAllocated(s) ==
    IF s = <<>> THEN <<>>
    ELSE InsertByAllocated(SortByAllocated(SubSeq(s, 1, Len(s) - 1)), s[Len(s)])

\* optimize_budget_allocation on the sample analyze_spending_patterns fetched
optimize_budget_allocation(dStats, total_budget) ==
    LET patterns == analyze_spending_patterns(dStats)
    IN IF patterns = <<>>
       THEN [success |-> FALSE,
             error |-> <<"Insufficient spending data">>,
             allocation |-> <<>>]
       ELSE LET total_spending ==
                    SumSeq([k \in 1..Len(patterns) |-> patterns[k].monthly_avg])
                allocations ==
                    [k \in 1..Len(patterns) |->
                        [category |-> patterns[k].category,
                         allocated_amount |->
                             allocated_amount(patterns[k], total_spending, total_budget),
                         \* in hundredths of a percent
                         percentage_of_total |->
                             IF total_spending > 0
                             THEN MulDivRound(100 * Cents, patterns[k].monthly_avg,
                                              total_spending)
                             ELSE 0,
                         priority |-> calculate_priority(patterns[k])]]
            IN [success |-> TRUE,
                total_budget |-> total_budget,
                allocation |-> SortByAllocated(
                                   normalize_allocations(allocations, total_budget)),
                categories_covered |-> Len(allocations)]

----------------------------------------------------------------------------
(* GoalService. Money is in cents; a percentage is in hundredths of a percent
   (two decimals); a float that is NaN is [nan |-> TRUE, v |-> 0]. *)

\* calculate_savings_rate on a fetched sample
calculate_savings_rate(d) ==
    IF d = <<>>
    THEN [avg_monthly_income |-> 0,
          avg_monthly_expenses |-> 0,
          avg_monthly_savings |-> 0,
          savings_rate_percentage |-> 0,
          consistency_score |-> Num(0)]
    ELSE LET months == Unique([i \in 1..Len(d) |-> MonthOf(d[i].date)])
             income == [k \in 1..Len(months) |-> MonthTotal(d, "income", months[k])]
             expenses == [k \in 1..Len(months) |-> MonthTotal(d, "expense", months[k])]
             savings == [k \in 1..Len(months) |-> income[k] - expenses[k]]
             avg_income == SumSeq(income) \div Len(months)
             avg_expenses == SumSeq(expenses) \div Len(months)
             avg_savings == SumSeq(savings) \div Len(months)
             std_savings == StdOf(savings)
             \* min(x, 100) and max(x, 0) return x when x is NaN
             consistency ==
                 IF avg_savings > 0
                 THEN IF std_savings.nan THEN NaN
                      ELSE Num(Max(0, 100 * Cents
                                   - Min((std_savings.v * 100 * Cents) \div avg_savings,
                                         100 * Cents)))
                 ELSE Num(0)
         IN [avg_monthly_income |-> avg_income,
             avg_monthly_expenses |-> avg_expenses,
             avg_monthly_savings |-> avg_savings,
             savings_rate_percentage |->
                 IF avg_income > 0 THEN (avg_savings * 100 * Cents) \div avg_income
                 ELSE 0,
             consistency_score |-> consistency,
             months_analyzed |-> Len(months)]

\* months_required of predict_goal_achievement, as the fraction num / den;
\* float('inf') is [inf |-> TRUE]
MonthsRequired(remaining, monthly_contribution) ==
    IF monthly_contribution <= 0 THEN [inf |-> TRUE, num |-> 0, den |-> 1]
    ELSE IF remaining > 9999 * monthly_contribution
         THEN [inf |-> FALSE, num |-> 9999, den |-> 1]
         ELSE [inf |-> FALSE, num |-> remaining, den |-> monthly_contribution]

\* months_required > n
MonthsExceed(months_required, n) ==
    months_required.inf \/ months_required.num > n * months_required.den

\* a deadline: NoValue (None), [day |-> d] (a date) or [malformed |-> TRUE]
\* (a string strptime rejects)
MonthsToDeadline(deadline, nowTs) == (deadline.day \div DaysPerMonth) - MonthOf(nowTs)

\* the probability scale: units per percent inside the computation
PScale == 100

\* _calculate_achievement_probability without its final cap
calculate_achievement_probability_uncapped(monthly_contribution, avg_savings, consistency, months_required, deadline, nowTs) ==
    LET contribution_ratio ==
            IF avg_savings <= 0 THEN PScale \div 2
            ELSE Min((monthly_contribution * PScale) \div avg_savings, 2 * PScale)
        base_probability == 50 * PScale + contribution_ratio * 25
        adjusted == (base_probability * (70000 + 3 * consistency.v)) \div 100000
        timed ==
            IF deadline = NoValue \/ "malformed" \in DOMAIN deadline THEN adjusted
            ELSE LET months_to_deadline == MonthsToDeadline(deadline, nowTs)
                 IN IF months_to_deadline <= 0 THEN adjusted \div 10
                    ELSE IF MonthsExceed(months_required, months_to_deadline)
                    THEN IF months_required.inf THEN 0
                         ELSE (adjusted * months_to_deadline * months_required.den)
                                  \div months_required.num
                    ELSE (adjusted * 11) \div 10
    IN (timed * Cents) \div PScale

\* the branch of the timeline adjustment of _calculate_achievement_probability
\* and the test of _generate_recommendations: months_to_deadline is a
\* difference of calendar months
timeline_adjustment(months_required, deadline, nowTs) ==
    IF deadline = NoValue THEN "none"
    ELSE IF "malformed" \in DOMAIN deadline THEN "ignored"
    ELSE LET months_to_deadline == MonthsToDeadline(deadline, nowTs)
         IN IF months_to_deadline <= 0 THEN "past_deadline"
            ELSE IF MonthsExceed(months_required, months_to_deadline)
            THEN "missing_deadline"
            ELSE "under_deadline"

\* _calculate_achievement_probability, in hundredths of a percent
calculate_achievement_probability(monthly_contribution, avg_savings, consistency, months_required, deadline, nowTs) ==
    LET contribution_ratio ==
            IF avg_savings <= 0 THEN PScale \div 2
            ELSE Min((monthly_contribution * PScale) \div avg_savings, 2 * PScale)
        base_probability == 50 * PScale + contribution_ratio * 25
        \* probability = base * (0.7 + 0.3 * consistency / 100)
        adjusted == (base_probability * (70000 + 3 * consistency.v)) \div 100000
        branch == timeline_adjustment(months_required, deadline, nowTs)
        timed ==
            IF branch = "past_deadline" THEN adjusted \div 10
            ELSE IF branch = "missing_deadline"
            THEN IF months_required.inf THEN 0
                 ELSE (adjusted * MonthsToDeadline(deadline, nowTs) * months_required.den)
                          \div months_required.num
            ELSE IF branch = "under_deadline" THEN (adjusted * 11) \div 10
            ELSE adjusted
        penalised ==
            IF MonthsExceed(months_required, 60) THEN (timed * 7) \div 10
            ELSE IF MonthsExceed(months_required, 36) THEN (timed * 85) \div 100
            ELSE timed
    IN \* max(5, min(95, nan)) is 95: min and max keep their first argument
       \* when the comparison with NaN is false
       IF consistency.nan THEN 95 * Cents
       ELSE Max(5 * Cents, Min(95 * Cents, (penalised * Cents) \div PScale))

\* one recommendation: the text around the formatted number and the number,
\* in cents (0 when the text has none)
Recommendation(text, amount) == [text |-> text, amount |-> amount]

\* round(remaining / months, 2) for months # 0
NeededContribution(remaining, months) ==
    IF months > 0 THEN MulDivRound(remaining, 1, months)
    ELSE -MulDivRound(remaining, 1, -months)

\* _generate_recommendations
generate_recommendations(monthly_contribution, avg_savings, remaining, months_required, deadline, nowTs) ==
    LET low == IF 2 * monthly_contribution < avg_savings
               THEN <<Recommendation(
                        <<"Consider increasing monthly contribution to $",
                          " based on your average savings capacity">>,
                        MulDivRound(avg_savings, 7, 10))>>
               ELSE <<>>
        high == IF 2 * monthly_contribution > 3 * avg_savings
                THEN <<Recommendation(
                         <<"Current contribution may be too aggressive - ensure it doesn't impact essential expenses">>,
                         0)>>
                ELSE <<>>
        timeline ==
            IF deadline = NoValue \/ "malformed" \in DOMAIN deadline THEN <<>>
            ELSE LET months_to_deadline == MonthsToDeadline(deadline, nowTs)
                 IN IF ~MonthsExceed(months_required, months_to_deadline) THEN <<>>
                    \* remaining / 0: ZeroDivisionError, swallowed by the handler
                    ELSE IF months_to_deadline = 0 THEN <<>>
                    ELSE <<Recommendation(
                             <<"To meet deadline, increase contribution to $", "/month">>,
                             NeededContribution(remaining, months_to_deadline))>>
        long == IF MonthsExceed(months_required, 24)
                THEN <<Recommendation(
                         <<"Consider setting intermediate milestones to track progress on this long-term goal">>,
                         0)>>
                ELSE <<>>
        unused == IF avg_savings > 0 /\ monthly_contribution < avg_savings
                  THEN <<Recommendation(
                           <<"You have $", "/month in unused savings capacity">>,
                           avg_savings - monthly_contribution)>>
                  ELSE <<>>
    IN low \o high \o timeline \o long \o unused

\* a predict_goal_achievement that takes a goal for achieved only when more
\* than the target is saved
predict_goal_achievement_try_strict(d, target_amount, current_amount, monthly_contribution, deadline, nowTs) ==
    LET savings_stats == calculate_savings_rate(d)
        remaining == target_amount - current_amount
    IN IF remaining < 0
       THEN [success |-> TRUE,
             achievement_probability |-> 100 * Cents,
             status |-> "achieved",
             months_required |-> Num(0),
             estimated_completion_date |-> CalendarDay(nowTs),
             message |-> <<"Goal already achieved!">>]
       ELSE [success |-> TRUE,
             achievement_probability |->
                 calculate_achievement_probability(
                     monthly_contribution, savings_stats.avg_monthly_savings,
                     savings_stats.consistency_score,
                     MonthsRequired(remaining, monthly_contribution), deadline, nowTs),
             status |-> "possible",
             months_required |-> Num(0),
             savings_statistics |-> savings_stats]

\* predict_goal_achievement inside its try, on the sample
\* calculate_savings_rate fetched
predict_goal_achievement_try(d, target_amount, current_amount, monthly_contribution, deadline, nowTs) ==
    LET savings_stats == calculate_savings_rate(d)
        remaining == target_amount - current_amount
        months_required == MonthsRequired(remaining, monthly_contribution)
        probability == calculate_achievement_probability(
                           monthly_contribution, savings_stats.avg_monthly_savings,
                           savings_stats.consistency_score, months_required,
                           deadline, nowTs)
    IN IF remaining <= 0
       THEN [success |-> TRUE,
             achievement_probability |-> 100 * Cents,
             status |-> "achieved",
             months_required |-> Num(0),
             estimated_completion_date |-> CalendarDay(nowTs),
             message |-> <<"Goal already achieved!">>]
       ELSE IF target_amount = 0
       \* current_amount / target_amount: ZeroDivisionError
       THEN Raise(<<"float division by zero">>)
       ELSE [success |-> TRUE,
             achievement_probability |-> probability,
             status |-> IF probability >= 80 * Cents THEN "highly_likely"
                        ELSE IF probability >= 50 * Cents THEN "possible"
                        ELSE IF probability >= 30 * Cents THEN "challenging"
                        ELSE "unlikely",
             \* round(months_required, 1), in tenths; None for no contribution
             months_required |->
                 IF months_required.inf THEN NaN
                 ELSE Num((months_required.num * 10) \div months_required.den),
             is_realistic |->
                 monthly_contribution * 10 <= savings_stats.avg_monthly_savings * 12,
             current_progress_percentage |->
                 (current_amount * 100 * Cents) \div target_amount,
             savings_statistics |-> savings_stats,
             recommendations |->
                 generate_recommendations(
                     monthly_contribution, savings_stats.avg_monthly_savings,
                     remaining, months_required, deadline, nowTs)]

\* a predict_goal_achievement without its outer handler: the exception
\* propagates
predict_goal_achievement_propagate(out) == out

\* the outer handler of predict_goal_achievement
predict_goal_achievement_except(out) ==
    IF IsRaise(out)
    THEN [success |-> FALSE,
          error |-> out.exception,
          achievement_probability |-> 0,
          status |-> "error"]
    ELSE out

\* the whole of predict_goal_achievement
predict_goal_achievement(d, target_amount, current_amount, monthly_contribution, deadline, nowTs) ==
    predict_goal_achievement_except(
        predict_goal_achievement_try(d, target_amount, current_amount,
                                     monthly_contribution, deadline, nowTs))

\* the gate of analyze_all_goals
analyze_all_goals_gate(d) ==
    check_data_sufficiency(d, GOALS_MIN_MONTHS * 30, MIN_TRANSACTIONS, 10)

\* the return of analyze_all_goals for a user without goals
analyze_all_goals_none ==
    [success |-> TRUE,
     total_goals |-> 0,
     goals |-> <<>>,
     overall_assessment |-> "No active goals"]

\* the early return of analyze_all_goals
analyze_all_goals_insufficient(goals, verdict) ==
    [success |-> FALSE,
     error |-> <<"Insufficient transaction data for goals analysis: ">>
                   \o verdict.reason,
     total_goals |-> Len(goals),
     goals |-> <<>>,
     data_info |-> verdict]

\* the monthly contribution analyze_all_goals derives for a goal, in cents
goal_monthly(goal, nowTs) ==
    IF goal.deadline = NoValue \/ "malformed" \in DOMAIN goal.deadline THEN 0
    ELSE LET months_to_deadline == MonthsToDeadline(goal.deadline, nowTs)
             remaining == goal.targetAmount - goal.currentAmount
         IN IF months_to_deadline > 0 /\ remaining > 0
            THEN remaining \div months_to_deadline ELSE 0

\* one iteration of the loop of analyze_all_goals, on the sample
\* predict_goal_achievement fetched for this goal
analyze_goal(goal, d, nowTs) ==
    [goal_name |-> goal.title,
     target_amount |-> goal.targetAmount,
     current_amount |-> goal.currentAmount,
     monthly_contribution |-> goal_monthly(goal, nowTs),
     deadline |-> goal.deadline,
     prediction |-> predict_goal_achievement(d, goal.targetAmount,
                        goal.currentAmount, goal_monthly(goal, nowTs),
                        goal.deadline, nowTs)]

\* the aggregate of analyze_all_goals over the analyzed goals
analyze_all_goals_assess(goals, analyzed_goals, savings_stats) ==
    LET total_monthly_required ==
            SumSeq([k \in 1..Len(analyzed_goals) |->
                       analyzed_goals[k].monthly_contribution])
        avg_probability ==
            SumSeq([k \in 1..Len(analyzed_goals) |->
                       analyzed_goals[k].prediction.achievement_probability])
                \div Len(analyzed_goals)
    IN [success |-> TRUE,
        total_goals |-> Len(goals),
        goals |-> analyzed_goals,
        total_monthly_commitment |-> total_monthly_required,
        avg_monthly_savings |-> savings_stats.avg_monthly_savings,
        overall_assessment |->
            IF total_monthly_required > savings_stats.avg_monthly_savings
            THEN "overcommitted"
            ELSE IF avg_probability >= 70 * Cents THEN "on_track"
            ELSE IF avg_probability >= 40 * Cents THEN "needs_adjustment"
            ELSE "challenging"]

\* the outer handler of analyze_all_goals
analyze_all_goals_except(out) ==
    IF IsRaise(out)
    THEN [success |-> FALSE, error |-> out.exception, total_goals |-> 0,
          goals |-> <<>>]
    ELSE out

\* the whole of analyze_all_goals: the gate on dGate, the savings statistics
\* on dSavings, and every goal's prediction on dGoal[k]
analyze_all_goals(goals, dGate, dSavings, dGoal, nowTs) ==
    IF goals = <<>> THEN analyze_all_goals_none
    ELSE LET verdict == analyze_all_goals_gate(dGate)
         IN IF ~verdict.sufficient
            THEN analyze_all_goals_insufficient(goals, verdict)
            ELSE analyze_all_goals_assess(
                     goals,
                     [k \in 1..Len(goals) |-> analyze_goal(goals[k], dGoal[k], nowTs)],
                     calculate_savings_rate(dSavings))

----------------------------------------------------------------------------
(* DataFetcher.get_financial_summary and InsightsService *)

\* get_spending_by_category on its own fetch
get_spending_by_category(d) ==
    IF d = <<>> THEN <<>>
    ELSE LET expenses == Expenses(d)
             categories == Categories(expenses)
         IN [k \in 1..Len(categories) |->
                [category |-> categories[k],
                 total |-> SumSeq(Amounts(OfCategory(expenses, categories[k]))) * Cents]]

\* get_financial_summary: d is its fetch, dCat the fetch of
\* get_spending_by_category
get_financial_summary(d, dCat, days) ==
    IF d = <<>>
    THEN [total_income |-> 0,
          total_expenses |-> 0,
          net_balance |-> 0,
          transaction_count |-> 0,
          avg_daily_spending |-> 0]
    ELSE LET income == Cents * SumSeq(Amounts(SelectSeqBy(d,
                             {i \in 1..Len(d) : d[i].type = "income"})))
             expenses == Cents * SumSeq(Amounts(Expenses(d)))
         IN [total_income |-> income,
             total_expenses |-> expenses,
             net_balance |-> income - expenses,
             transaction_count |-> Len(d),
             avg_daily_spending |-> IF days > 0 THEN expenses \div days ELSE 0,
             spending_by_category |-> get_spending_by_category(dCat)]

\* dict.get(key, default)
Get(dict, key, default) == IF key \in DOMAIN dict THEN dict[key] ELSE default

\* dict[key] = value
Put(dict, key, value) ==
    [k \in DOMAIN dict \cup {key} |-> IF k = key THEN value ELSE dict[k]]

\* the context _gather_financial_context starts from
EmptyContext == [has_data |-> FALSE]

\* the steps of _gather_financial_context; summary is the dict of
\* get_financial_summary or NoValue for {}, out is what the sub-analysis
\* returned, an envelope or Raise(..)
ctx_summary(ctx, summary) ==
    IF summary # NoValue
    THEN Put(Put(ctx, "financial_summary", summary), "has_data", TRUE)
    ELSE ctx

ctx_forecast(ctx, out) ==
    IF IsRaise(out) THEN Put(ctx, "forecast_available", FALSE)
    ELSE IF out.success
    THEN Put(Put(ctx, "forecast", out.statistics), "forecast_available", TRUE)
    ELSE ctx

\* a gathering step that starts over when the anomalies are not available
ctx_anomalies_reset(ctx, out) ==
    IF IsRaise(out) \/ ~out.success THEN [has_data |-> ctx.has_data]
    ELSE Put(Put(ctx, "anomalies", out.statistics),
             "anomalies_count", out.statistics.anomalies_detected)

ctx_anomalies(ctx, out) ==
    IF IsRaise(out) THEN Put(ctx, "anomalies_count", 0)
    ELSE IF out.success
    THEN Put(Put(ctx, "anomalies", out.statistics),
             "anomalies_count", out.statistics.anomalies_detected)
    ELSE ctx

ctx_budget(ctx, out) ==
    IF IsRaise(out) THEN Put(ctx, "budget_available", FALSE)
    ELSE IF out.success
    THEN Put(Put(ctx, "budget_recommendations", out), "budget_available", TRUE)
    ELSE ctx

ctx_goals(ctx, out) ==
    IF IsRaise(out) THEN Put(ctx, "goals_count", 0)
    ELSE IF out.success
    THEN Put(Put(ctx, "goals_analysis", out), "goals_count", out.total_goals)
    ELSE ctx

\* f"{x:.2f}" of an amount in cents
Fmt2(c) ==
    LET a == IF c < 0 THEN -c ELSE c
    IN (IF c < 0 THEN <<"-">> ELSE <<>>)
           \o <<ToString(a \div Cents), ".", ToString((a % Cents) \div 10),
                ToString(a % 10)>>

\* f"{x:.1f}" of a value in hundredths
Fmt1(h) ==
    LET a == ((IF h < 0 THEN -h ELSE h) + 5) \div 10
    IN (IF h < 0 THEN <<"-">> ELSE <<>>)
           \o <<ToString(a \div 10), ".", ToString(a % 10)>>

Abs(x) == IF x < 0 THEN -x ELSE x

RECURSIVE JoinLines(_)
\* "\n".join(lines)
JoinLines(lines) ==
    IF lines = <<>> THEN <<>>
    ELSE IF Len(lines) = 1 THEN lines[1]
    ELSE lines[1] \o <<"\n">> \o JoinLines(Tail(lines))

\* _generate_basic_insights: the rule-based narrative of a context. It reads
\* the context and nothing else. The number that opens a numbered line is a
\* piece of its own.
generate_basic_insights(ctx) ==
    LET has_summary == "financial_summary" \in DOMAIN ctx
        summary == ctx.financial_summary
        goals_count == Get(ctx, "goals_count", 0)
        health ==
            IF ~has_summary THEN <<>>
            ELSE IF summary.net_balance > 0
            THEN <<<<"You have a positive net balance of $">>
                     \o Fmt2(summary.net_balance)
                     \o <<" over the last 30 days, with a savings rate of ">>
                     \o Fmt1(IF summary.total_income > 0
                             THEN (summary.net_balance * 100 * Cents)
                                      \div summary.total_income
                             ELSE 0)
                     \o <<"%.">>>>
            ELSE <<<<"Your expenses exceeded income by $">>
                     \o Fmt2(Abs(summary.net_balance))
                     \o <<" in the last 30 days. Consider reviewing your spending patterns.">>>>
        forecast_line ==
            IF ~Get(ctx, "forecast_available", FALSE) THEN <<>>
            ELSE LET trend == ctx.forecast.trend_percentage
                 IN IF ~trend.nan /\ trend.v > 10 * Cents
                    THEN <<<<"1. ", "Your spending is trending upward by ">>
                             \o Fmt1(trend.v)
                             \o <<"%. Daily spending is projected to increase from $">>
                             \o Fmt2(ctx.forecast.historical_avg_daily) \o <<" to $">>
                             \o Fmt2(ctx.forecast.forecast_avg_daily) \o <<".">>>>
                    ELSE IF ~trend.nan /\ trend.v < -10 * Cents
                    THEN <<<<"1. ", "Great news! Your spending is trending downward by ">>
                             \o Fmt1(Abs(trend.v))
                             \o <<"%. You're reducing daily spending from $">>
                             \o Fmt2(ctx.forecast.historical_avg_daily) \o <<" to $">>
                             \o Fmt2(ctx.forecast.forecast_avg_daily) \o <<".">>>>
                    ELSE <<<<"1. ", "Your spending patterns are stable with minimal change (">>
                             \o (IF trend.nan THEN <<"+nan">>
                                 ELSE (IF trend.v >= 0 THEN <<"+">> ELSE <<>>)
                                          \o Fmt1(trend.v))
                             \o <<"%).">>>>
        anomaly_line ==
            IF Get(ctx, "anomalies_count", 0) > 0
            THEN <<"2. ", "Detected ", ToString(ctx.anomalies.anomalies_detected),
                   " unusual transactions totaling $">>
                     \o Fmt2(ctx.anomalies.total_anomalous_spending)
                     \o <<". Review these for unexpected charges or one-time expenses.">>
            ELSE <<"2. ", "No unusual spending patterns detected. Your transactions appear consistent with your typical behavior.">>
        goals_line ==
            IF goals_count > 0
            THEN LET goals == ctx.goals_analysis
                 IN IF goals.overall_assessment = "on_track"
                    THEN <<"3. ", "Your ", ToString(goals.total_goals),
                           " financial goal(s) are on track with $">>
                             \o Fmt2(goals.total_monthly_commitment)
                             \o <<"/month in commitments.">>
                    ELSE IF goals.overall_assessment = "overcommitted"
                    THEN <<"3. ", "Your ", ToString(goals.total_goals),
                           " goals require $">>
                             \o Fmt2(goals.total_monthly_commitment)
                             \o <<"/month, which may exceed your savings capacity. Consider adjusting timelines or contributions.">>
                    ELSE <<"3. ", "You have ", ToString(goals.total_goals),
                           " active financial goal(s) that may need adjustment to improve achievability.">>
            ELSE <<"3. ", "Consider setting financial goals to track progress toward savings targets, vacations, or major purchases.">>
        budget_line ==
            IF Get(ctx, "budget_available", FALSE)
            THEN <<"1. ", "Based on your spending patterns, a monthly budget of $">>
                     \o Fmt2(ctx.budget_recommendations.total_recommended_budget)
                     \o <<" is recommended. Review category-specific budgets to optimize spending.">>
            ELSE <<"1. ", "Start tracking expenses by category to receive personalized budget recommendations.">>
        reduction_line ==
            IF has_summary
            THEN IF summary.avg_daily_spending > 0
                 THEN <<"2. ", "Reducing daily spending by 15% ($">>
                          \o Fmt2((summary.avg_daily_spending * 15) \div 100)
                          \o <<"/day) could save $">>
                          \o Fmt2((summary.avg_daily_spending * 15 * 30) \div 100)
                          \o <<"/month.">>
                 ELSE <<"2. ", "Continue tracking transactions to identify spending reduction opportunities.">>
            ELSE <<"2. ", "Track your daily expenses consistently to identify areas where you can reduce spending.">>
        fund_line ==
            IF goals_count = 0
            THEN <<"3. ", "Set up an emergency fund goal of 3-6 months of expenses as a financial safety net.">>
            ELSE <<"3. ", "Automate your savings by setting up automatic transfers on payday to stay consistent with your goals.">>
        caution ==
            IF goals_count > 0
            THEN IF ctx.goals_analysis.overall_assessment = "overcommitted"
                 THEN <<<<"You're committed to more in monthly savings than your typical capacity. This may lead to missed goals or financial stress. Consider prioritizing your most important goals.">>>>
                 ELSE <<>>
            ELSE IF has_summary /\ summary.net_balance < 0
            THEN <<<<"Your spending exceeded income by $">>
                     \o Fmt2(Abs(summary.net_balance))
                     \o <<" last month. If this continues, it could impact your financial stability. Focus on reducing discretionary expenses.">>>>
            ELSE <<<<"Continue monitoring your spending patterns to catch any emerging issues early. Consistency is key to financial health.">>>>
    IN JoinLines(<<<<"**Overall Financial Health Assessment:**">>>>
                 \o health
                 \o <<<<"\n**Top 3 Insights:**">>>>
                 \o forecast_line
                 \o <<anomaly_line, goals_line>>
                 \o <<<<"\n**Top 3 Recommendations:**">>>>
                 \o <<budget_line, reduction_line, fund_line>>
                 \o <<<<"\n**One Caution:**">>>>
                 \o caution)

\* the gate of generate_comprehensive_insights
insights_gate(d) ==
    check_data_sufficiency(d, INSIGHTS_MIN_DAYS, MIN_TRANSACTIONS, 10)

\* the early returns of generate_comprehensive_insights
insights_insufficient(verdict) ==
    [success |-> FALSE,
     error |-> <<"Insufficient data for insights: ">> \o verdict.reason,
     insights |-> <<>>,
     data_info |-> verdict]

insights_no_data ==
    [success |-> FALSE,
     error |-> <<"Insufficient financial data for insights">>,
     insights |-> <<>>]

context_used(ctx) ==
    [spending_forecast |-> Get(ctx, "forecast_available", FALSE),
     anomalies_detected |-> Get(ctx, "anomalies_count", 0),
     budgets_analyzed |-> Get(ctx, "budget_available", FALSE),
     goals_analyzed |-> Get(ctx, "goals_count", 0)]

\* the remote narrative capability: what generate_content did,
\* [raised |-> TRUE] or [raised |-> FALSE, text |-> its answer]
RemoteOutcomes == {[raised |-> TRUE], [raised |-> FALSE, text |-> <<"AI narrative">>]}

\* a generate_comprehensive_insights that reports the failure of the remote
\* capability instead of falling back
insights_narrate_surface(ctx, gemini) ==
    IF gemini.raised
    THEN [success |-> FALSE, error |-> <<"remote error">>, insights |-> <<>>]
    ELSE [success |-> TRUE,
          insights |-> gemini.text,
          context_used |-> context_used(ctx)]

\* the inner try of generate_comprehensive_insights and its handler
insights_narrate(ctx, gemini) ==
    IF gemini.raised
    THEN [success |-> TRUE,
          insights |-> generate_basic_insights(ctx),
          ai_unavailable |-> TRUE,
          context_used |-> context_used(ctx)]
    ELSE [success |-> TRUE,
          insights |-> gemini.text,
          context_used |-> context_used(ctx)]

\* the outer handler of generate_comprehensive_insights
generate_comprehensive_insights_except(out) ==
    IF IsRaise(out)
    THEN [success |-> FALSE, error |-> out.exception, insights |-> <<>>]
    ELSE out

\* the outer handler of generate_specific_insight and generate_quick_insight
insights_except(out) ==
    IF IsRaise(out)
    THEN [success |-> FALSE, error |-> out.exception, insight |-> <<>>]
    ELSE out

\* generate_specific_insight inside its try
generate_specific_insight_try(context_type, gemini) ==
    IF context_type \notin {"spending", "saving", "budgeting", "goals"}
    THEN [success |-> FALSE,
          error |-> <<"Unknown context type: ", context_type>>,
          insight |-> <<>>]
    ELSE IF gemini.raised THEN Raise(<<"remote error">>)
    ELSE [success |-> TRUE, context_type |-> context_type, insight |-> gemini.text]

generate_specific_insight(context_type, gemini) ==
    insights_except(generate_specific_insight_try(context_type, gemini))

\* generate_quick_insight inside its try
generate_quick_insight_try(prompt, ctx, gemini) ==
    IF gemini.raised THEN Raise(<<"remote error">>)
    ELSE [success |-> TRUE, insight |-> gemini.text, context_used |-> ctx]

generate_quick_insight(prompt, ctx, gemini) ==
    insights_except(generate_quick_insight_try(prompt, ctx, gemini))

----------------------------------------------------------------------------
(* The state outside a run: no request in flight, nothing recorded *)

NoFits == [series \in {} |-> 0]

MaxThreads == 2
Threads == 1..MaxThreads

\* a thread that has not begun a request
IdleThread == [pc |-> "idle", k |-> 1, old_stderr |-> "none", success |-> TRUE]

\* the interpreter as it starts: sys.stderr is the original stream, open
ProcessStart ==
    /\ sys_stderr = "stderr"
    /\ closed = {}
    /\ threads = [t \in Threads |-> IdleThread]

IdleRequest ==
    /\ ProcessStart
    /\ op = "idle"
    /\ pc = "idle"
    /\ params = NoValue
    /\ df = <<>>
    /\ sufficiency = NoValue
    /\ work = NoValue
    /\ context = NoValue
    /\ result = NoValue
    /\ escaped = FALSE
    /\ gateEvals = {}
    /\ derivations = {}
    /\ fits = NoFits
    /\ scored = 0
    /\ remoteCalls = 0
    /\ called = <<>>

NoPureCall ==
    /\ args = NoValue
    /\ ret = NoValue

----------------------------------------------------------------------------
(* The gate as a pure function: every small sample, every threshold triple *)

HarnessTx ==
    [date : 0..((MaxDay + 1) * TicksPerDay - 1),
     type : {"income", "expense"},
     category : {"Food"},
     amount : {10},
     description : {"No description"}]

IsSortedByDate(s) == \A i \in 1..(Len(s) - 1) : s[i].date <= s[i + 1].date

\* get_user_transactions returns the rows sorted by date
HarnessSamples ==
    {s \in UNION {[1..n -> HarnessTx] : n \in 0..MaxLen} : IsSortedByDate(s)}

GateInit ==
    /\ args \in [df : HarnessSamples,
                 min_days : 0..MaxThr,
                 min_transactions : 0..MaxThr,
                 min_expenses : 0..MaxThr]
    /\ ret = NoValue
    /\ store = <<>>
    /\ goalsStore = <<>>
    /\ writes = 0
    /\ now = 0
    /\ IdleRequest

GateCall ==
    /\ ret = NoValue
    /\ ret' = check_data_sufficiency(args.df, args.min_days,
                                     args.min_transactions, args.min_expenses)
    /\ UNCHANGED <<args, envVars, reqVars, histVars>>

GateNext == GateCall

SpecGate == GateInit /\ [][GateNext]_vars

----------------------------------------------------------------------------
(* The service: one user, one request at a time, the store modified
   concurrently by the rest of the application *)

Tx(day, type, category, amount) ==
    [date |-> day * TicksPerDay,
     type |-> type,
     category |-> category,
     amount |-> amount,
     description |-> "No description"]

\* 36 rows over 40 days and two calendar months, 27 expenses in two categories
RichStore ==
    [i \in 1..36 |->
        Tx(((i - 1) * 40) \div 35,
           IF i % 4 = 0 THEN "income" ELSE "expense",
           IF i % 3 = 0 THEN "Rent" ELSE "Food",
           IF i % 4 = 0 THEN 100 ELSE IF i = 35 THEN 200 ELSE 10 + (i % 3))]

\* exactly at the thresholds: 30 rows spanning 30 days, 20 of them expenses
ExactStore ==
    [i \in 1..30 |->
        Tx(((i - 1) * 30) \div 29,
           IF i % 3 = 2 THEN "income" ELSE "expense",
           "Food",
           IF i % 3 = 2 THEN 50 ELSE 10)]

\* 30 rows spanning 30 days, 15 expenses
FewExpensesStore ==
    [i \in 1..30 |->
        Tx(((i - 1) * 30) \div 29,
           IF i % 2 = 0 THEN "income" ELSE "expense",
           "Food",
           IF i % 2 = 0 THEN 40 ELSE 10 + i)]

\* 10 expenses on 10 consecutive days
ShortStore == [i \in 1..10 |-> Tx(i - 1, "expense", "Food", 10 + i)]

\* 2 expenses 30 days apart
SparseStore == <<Tx(0, "expense", "Food", 10), Tx(30, "expense", "Food", 20)>>

Stores == {<<>>, RichStore, ExactStore, FewExpensesStore, ShortStore, SparseStore}

\* goals as the store holds them: amounts in cents, the deadline a date
\* ([day |-> d]) or absent (NoValue)
\* the remaining amount is a whole number of cents per month to the deadline
CarGoal == [title |-> "Car", targetAmount |-> 1000 * Cents,
            currentAmount |-> 100 * Cents, deadline |-> [day |-> NowDay + 90]]
TripGoal == [title |-> "Trip", targetAmount |-> 500 * Cents,
             currentAmount |-> 500 * Cents, deadline |-> NoValue]

GoalStores == {<<>>, <<CarGoal>>, <<CarGoal, TripGoal>>}

\* what the collaborators may do
ProphetOutcomes ==
    {[raised |-> TRUE],
     [raised |-> FALSE, level |-> 15 * Cents],
     [raised |-> FALSE, level |-> -5 * Cents]}

ForestOutcomes ==
    {[raised |-> TRUE],
     [raised |-> FALSE, flagged |-> {}],
     [raised |-> FALSE, flagged |-> {1, 2}]}

CategoryNames == {"Food", "Rent"}

CategoryOutcomes ==
    {[c \in CategoryNames |-> o] :
        o \in {"ok", "attr_ok", "attr_raise", "raise", "predict_raise"}}

\* the parameters a request may carry; dbError: the store is unreachable
\* while the request runs
ParamsOf(o) ==
    IF o = "forecast"
    THEN [dbError : BOOLEAN, forecast_days : 0..MaxHorizon]
    ELSE IF o = "category_forecast"
    THEN [dbError : BOOLEAN, forecast_days : {MaxHorizon}]
    ELSE IF o \in {"anomalies", "category_anomalies"}
    THEN [dbError : BOOLEAN, days : {90}]
    ELSE IF o = "budget"
    THEN [dbError : BOOLEAN, approach : {"balanced", "conservative"}]
    ELSE IF o = "optimize"
    THEN [dbError : BOOLEAN, total_budget : {100 * Cents}]
    ELSE IF o = "goal"
    THEN [dbError : {FALSE},
          target_amount : {0, 1000 * Cents},
          current_amount : {-5 * Cents, 1000 * Cents},
          monthly_contribution : {0, 100 * Cents},
          deadline : {NoValue, [day |-> NowDay + 90]}]
    ELSE IF o = "specific_insight"
    THEN [dbError : {FALSE}, context_type : {"spending", "taxes"}]
    ELSE IF o = "quick_insight"
    THEN [dbError : {FALSE}, prompt : {<<"How am I doing?">>}]
    ELSE [dbError : BOOLEAN]

Operations ==
    {"forecast", "category_forecast", "anomalies", "category_anomalies",
     "budget", "optimize", "goal", "goals", "insights", "specific_insight",
     "quick_insight"}

Init ==
    /\ NoPureCall
    /\ store \in Stores
    /\ goalsStore \in GoalStores
    /\ writes = 0
    /\ now = NowDay * TicksPerDay
    /\ IdleRequest

\* a request arrives
Begin ==
    /\ pc = "idle"
    /\ \E o \in Operations :
           /\ op' = o
           /\ params' \in ParamsOf(o)
    /\ pc' = "begun"
    /\ UNCHANGED <<pureVars, envVars, df, sufficiency, work, context, result,
                   escaped, histVars>>

\* the rest of the application inserts a transaction dated now
StoreWrite ==
    /\ writes < MaxWrites
    /\ store' = Append(store, [date |-> now, type |-> "expense",
                               category |-> "Food", amount |-> 50,
                               description |-> "No description"])
    /\ writes' = writes + 1
    /\ UNCHANGED <<pureVars, goalsStore, now, procVars, reqVars, histVars>>

\* the response has been sent: the request's locals are gone
Respond ==
    /\ pc = "done"
    /\ op' = "idle"
    /\ pc' = "idle"
    /\ params' = NoValue
    /\ df' = <<>>
    /\ sufficiency' = NoValue
    /\ work' = NoValue
    /\ context' = NoValue
    /\ result' = NoValue
    /\ escaped' = FALSE
    /\ gateEvals' = {}
    /\ derivations' = {}
    /\ fits' = NoFits
    /\ scored' = 0
    /\ remoteCalls' = 0
    /\ called' = <<>>
    /\ UNCHANGED <<pureVars, envVars>>

\* DataFetcher.get_user_transactions as the services call it (use_all_data
\* is True at every call site, by argument or by default)
Fetch(days) == get_user_transactions(store, params.dbError, days, TRUE, now)

\* the operation returns final, or final propagates when it is an exception
Finish(final) ==
    /\ pc' = "done"
    /\ result' = IF IsRaise(final) THEN NoValue ELSE final
    /\ escaped' = IsRaise(final)

GateEval(by, d, verdict) ==
    [by |-> by, sample |-> d, sufficient |-> verdict.sufficient]

Derivation(by, d) == [by |-> by, sample |-> d]

RECURSIVE AddFits(_, _)
\* count the fit calls of fitted, a sequence of [series, calls]
AddFits(f, fitted) ==
    IF fitted = <<>> THEN f
    ELSE AddFits(Put(f, fitted[1].series, Get(f, fitted[1].series, 0)
                                               + fitted[1].calls),
                 Tail(fitted))

\* ForecastService.train_and_predict
TrainAndPredict ==
    /\ op = "forecast" /\ pc = "begun"
    /\ \E prophet \in ProphetOutcomes :
           LET d == Fetch(90)
               fitted == ForecastFits(d)
           IN /\ df' = d
              /\ work' = prophet
              /\ Finish(train_and_predict(d, params.forecast_days, prophet))
              /\ derivations' = IF fitted
                                THEN derivations \cup {Derivation("forecast", d)}
                                ELSE derivations
              /\ fits' = IF fitted
                         THEN AddFits(fits, <<[series |-> "portfolio", calls |-> 1]>>)
                         ELSE fits
    /\ UNCHANGED <<pureVars, envVars, op, params, sufficiency, context,
                   gateEvals, scored, remoteCalls, called>>

\* ForecastService.get_category_forecast
GetCategoryForecast ==
    /\ op = "category_forecast" /\ pc = "begun"
    /\ \E outcomes \in CategoryOutcomes :
           LET d == Fetch(90)
               run == get_category_forecast(d, params.forecast_days, outcomes)
           IN /\ df' = d
              /\ work' = outcomes
              /\ Finish(run.envelope)
              /\ derivations' = IF d # <<>>
                                THEN derivations
                                         \cup {Derivation("category_forecast", d)}
                                ELSE derivations
              /\ fits' = AddFits(fits, run.fitted)
    /\ UNCHANGED <<pureVars, envVars, op, params, sufficiency, context,
                   gateEvals, scored, remoteCalls, called>>

\* AnomalyService.detect_anomalies
DetectAnomalies ==
    /\ op = "anomalies" /\ pc = "begun"
    /\ \E forest \in ForestOutcomes :
           LET d == Fetch(90)
               verdict == detect_anomalies_gate(d)
           IN /\ df' = d
              /\ work' = forest
              /\ sufficiency' = verdict
              /\ Finish(detect_anomalies(d, params.days, forest))
              /\ gateEvals' = gateEvals \cup {GateEval("anomalies", d, verdict)}
              /\ derivations' = IF verdict.sufficient
                                THEN derivations \cup {Derivation("anomalies", d)}
                                ELSE derivations
              /\ scored' = IF verdict.sufficient THEN scored + 1 ELSE scored
    /\ UNCHANGED <<pureVars, envVars, op, params, context, fits,
                   remoteCalls, called>>

\* AnomalyService.get_category_anomalies
GetCategoryAnomalies ==
    /\ op = "category_anomalies" /\ pc = "begun"
    /\ LET d == Fetch(90)
       IN /\ df' = d
          /\ Finish(get_category_anomalies(d, params.days))
          /\ derivations' = IF d # <<>>
                            THEN derivations
                                     \cup {Derivation("category_anomalies", d)}
                            ELSE derivations
    /\ UNCHANGED <<pureVars, envVars, op, params, sufficiency, work, context,
                   gateEvals, fits, scored, remoteCalls, called>>

\* BudgetService.recommend_budgets up to the call of analyze_spending_patterns
RecommendBudgetsGate ==
    /\ op = "budget" /\ pc = "begun"
    /\ LET d == Fetch(365)
           verdict == recommend_budgets_gate(d)
       IN /\ df' = d
          /\ sufficiency' = verdict
          /\ gateEvals' = gateEvals \cup {GateEval("budget", d, verdict)}
          /\ IF verdict.sufficient
             THEN /\ pc' = "analyze"
                  /\ UNCHANGED <<result, escaped>>
             ELSE Finish(recommend_budgets_insufficient(verdict))
    /\ UNCHANGED <<pureVars, envVars, op, params, work, context, derivations,
                   fits, scored, remoteCalls, called>>

\* BudgetService.recommend_budgets from analyze_spending_patterns (which
\* fetches the sample again) to the return
RecommendBudgetsAnalyze ==
    /\ op = "budget" /\ pc = "analyze"
    /\ LET dStats == Fetch(180)
       IN /\ work' = analyze_spending_patterns(dStats)
          /\ Finish(recommend_budgets_recommend(dStats, params.approach))
          /\ derivations' = derivations \cup {Derivation("budget", dStats)}
    /\ UNCHANGED <<pureVars, envVars, op, params, df, sufficiency, context,
                   gateEvals, fits, scored, remoteCalls, called>>

\* BudgetService.optimize_budget_allocation
OptimizeBudgetAllocation ==
    /\ op = "optimize" /\ pc = "begun"
    /\ LET dStats == Fetch(180)
       IN /\ work' = analyze_spending_patterns(dStats)
          /\ Finish(optimize_budget_allocation(dStats, params.total_budget))
          /\ derivations' = IF dStats # <<>>
                            THEN derivations \cup {Derivation("optimize", dStats)}
                            ELSE derivations
    /\ UNCHANGED <<pureVars, envVars, op, params, df, sufficiency, context,
                   gateEvals, fits, scored, remoteCalls, called>>

\* GoalService.predict_goal_achievement
PredictGoalAchievement ==
    /\ op = "goal" /\ pc = "begun"
    /\ LET d == Fetch(180)
       IN /\ df' = d
          /\ Finish(predict_goal_achievement(d, params.target_amount,
                        params.current_amount, params.monthly_contribution,
                        params.deadline, now))
          /\ derivations' = derivations \cup {Derivation("goal", d)}
    /\ UNCHANGED <<pureVars, envVars, op, params, sufficiency, work, context,
                   gateEvals, fits, scored, remoteCalls, called>>

\* DataFetcher.get_user_goals: [] when the store raises
FetchGoals == IF params.dbError THEN <<>> ELSE goalsStore

\* GoalService.analyze_all_goals up to the call of calculate_savings_rate
AnalyzeAllGoalsGate ==
    /\ op = "goals" /\ pc = "begun"
    /\ LET goals == FetchGoals
           d == Fetch(365)
           verdict == analyze_all_goals_gate(d)
       IN IF goals = <<>>
          THEN /\ Finish(analyze_all_goals_none)
               /\ UNCHANGED <<df, sufficiency, work, gateEvals>>
          ELSE /\ df' = d
               /\ sufficiency' = verdict
               /\ gateEvals' = gateEvals \cup {GateEval("goals", d, verdict)}
               /\ IF verdict.sufficient
                  THEN /\ pc' = "savings"
                       /\ work' = [goals |-> goals, analyzed_goals |-> <<>>]
                       /\ UNCHANGED <<result, escaped>>
                  ELSE /\ Finish(analyze_all_goals_insufficient(goals, verdict))
                       /\ UNCHANGED work
    /\ UNCHANGED <<pureVars, envVars, op, params, context, derivations, fits,
                   scored, remoteCalls, called>>

\* GoalService.analyze_all_goals: calculate_savings_rate, on its own fetch
AnalyzeAllGoalsSavings ==
    /\ op = "goals" /\ pc = "savings"
    /\ LET d == Fetch(180)
       IN /\ work' = [goals |-> work.goals,
                      analyzed_goals |-> <<>>,
                      savings_stats |-> calculate_savings_rate(d)]
          /\ derivations' = derivations \cup {Derivation("goals", d)}
    /\ pc' = "goal"
    /\ UNCHANGED <<pureVars, envVars, op, params, df, sufficiency, context,
                   result, escaped, gateEvals, fits, scored, remoteCalls, called>>

\* GoalService.analyze_all_goals: one iteration of the loop over the goals
\* (predict_goal_achievement fetches the sample for every goal), and after
\* the last one the assessment and the return
AnalyzeAllGoalsGoal ==
    /\ op = "goals" /\ pc = "goal"
    /\ LET d == Fetch(180)
           k == Len(work.analyzed_goals) + 1
           analyzed_goals == Append(work.analyzed_goals,
                                    analyze_goal(work.goals[k], d, now))
       IN /\ work' = [work EXCEPT !.analyzed_goals = analyzed_goals]
          /\ derivations' = derivations \cup {Derivation("goals", d)}
          /\ IF k = Len(work.goals)
             THEN Finish(analyze_all_goals_except(
                      analyze_all_goals_assess(work.goals, analyzed_goals,
                                               work.savings_stats)))
             ELSE UNCHANGED <<pc, result, escaped>>
    /\ UNCHANGED <<pureVars, envVars, op, params, df, sufficiency, context,
                   gateEvals, fits, scored, remoteCalls, called>>

\* InsightsService.generate_comprehensive_insights up to the call of
\* _gather_financial_context
InsightsGate ==
    /\ op = "insights" /\ pc = "begun"
    /\ LET d == Fetch(365)
           verdict == insights_gate(d)
       IN /\ df' = d
          /\ sufficiency' = verdict
          /\ gateEvals' = gateEvals \cup {GateEval("insights", d, verdict)}
          /\ IF verdict.sufficient
             THEN /\ pc' = "summary"
                  /\ context' = EmptyContext
                  /\ UNCHANGED <<result, escaped>>
             ELSE /\ Finish(insights_insufficient(verdict))
                  /\ UNCHANGED context
    /\ UNCHANGED <<pureVars, envVars, op, params, work, derivations, fits,
                   scored, remoteCalls, called>>

\* _gather_financial_context: the financial summary
GatherSummary ==
    /\ op = "insights" /\ pc = "summary"
    /\ LET d == Fetch(30)
       IN /\ context' = ctx_summary(context, get_financial_summary(d, d, 30))
          /\ derivations' = derivations \cup {Derivation("insights", d)}
    /\ pc' = "forecast"
    /\ UNCHANGED <<pureVars, envVars, op, params, df, sufficiency, work, result,
                   escaped, gateEvals, fits, scored, remoteCalls, called>>

\* _gather_financial_context: the spending forecast
GatherForecast ==
    /\ op = "insights" /\ pc = "forecast"
    /\ \E prophet \in ProphetOutcomes :
           LET d == Fetch(90)
               fitted == ForecastFits(d)
           IN /\ context' = ctx_forecast(context, train_and_predict(d, 30, prophet))
              /\ derivations' = IF fitted
                                THEN derivations \cup {Derivation("forecast", d)}
                                ELSE derivations
              /\ fits' = IF fitted
                         THEN AddFits(fits, <<[series |-> "portfolio", calls |-> 1]>>)
                         ELSE fits
    /\ called' = Append(called, "forecast")
    /\ pc' = "anomalies"
    /\ UNCHANGED <<pureVars, envVars, op, params, df, sufficiency, work, result,
                   escaped, gateEvals, scored, remoteCalls>>

\* _gather_financial_context: the anomalies
GatherAnomalies ==
    /\ op = "insights" /\ pc = "anomalies"
    /\ \E forest \in ForestOutcomes :
           LET d == Fetch(90)
               verdict == detect_anomalies_gate(d)
           IN /\ context' = ctx_anomalies(context, detect_anomalies(d, 90, forest))
              /\ gateEvals' = gateEvals \cup {GateEval("anomalies", d, verdict)}
              /\ derivations' = IF verdict.sufficient
                                THEN derivations \cup {Derivation("anomalies", d)}
                                ELSE derivations
              /\ scored' = IF verdict.sufficient THEN scored + 1 ELSE scored
    /\ called' = Append(called, "anomalies")
    /\ pc' = "budget"
    /\ UNCHANGED <<pureVars, envVars, op, params, df, sufficiency, work, result,
                   escaped, fits, remoteCalls>>

\* _gather_financial_context: the budget recommendations
GatherBudget ==
    /\ op = "insights" /\ pc = "budget"
    /\ LET d == Fetch(365)
           verdict == recommend_budgets_gate(d)
       IN /\ context' = ctx_budget(context, recommend_budgets(d, d, "balanced"))
          /\ gateEvals' = gateEvals \cup {GateEval("budget", d, verdict)}
          /\ derivations' = IF verdict.sufficient
                            THEN derivations \cup {Derivation("budget", d)}
                            ELSE derivations
    /\ called' = Append(called, "budget")
    /\ pc' = "goals"
    /\ UNCHANGED <<pureVars, envVars, op, params, df, sufficiency, work, result,
                   escaped, fits, scored, remoteCalls>>

\* _gather_financial_context: the goals analysis
GatherGoals ==
    /\ op = "insights" /\ pc = "goals"
    /\ LET goals == FetchGoals
           d == Fetch(365)
           verdict == analyze_all_goals_gate(d)
       IN /\ context' = ctx_goals(context,
                            analyze_all_goals_except(
                                analyze_all_goals(goals, d, d,
                                                  [k \in 1..Len(goals) |-> d], now)))
          /\ gateEvals' = IF goals # <<>>
                          THEN gateEvals \cup {GateEval("goals", d, verdict)}
                          ELSE gateEvals
          /\ derivations' = IF goals # <<>> /\ verdict.sufficient
                            THEN derivations \cup {Derivation("goals", d)}
                            ELSE derivations
    /\ called' = Append(called, "goals")
    /\ pc' = "narrate"
    /\ UNCHANGED <<pureVars, envVars, op, params, df, sufficiency, work, result,
                   escaped, fits, scored, remoteCalls>>

\* generate_comprehensive_insights after _gather_financial_context
InsightsNarrate ==
    /\ op = "insights" /\ pc = "narrate"
    /\ \E gemini \in RemoteOutcomes :
           IF ~context.has_data
           THEN /\ Finish(insights_no_data)
                /\ UNCHANGED <<remoteCalls, work>>
           ELSE /\ Finish(generate_comprehensive_insights_except(
                              insights_narrate(context, gemini)))
                /\ remoteCalls' = remoteCalls + 1
                /\ work' = gemini
    /\ UNCHANGED <<pureVars, envVars, op, params, df, sufficiency, context,
                   gateEvals, derivations, fits, scored, called>>

\* InsightsService.generate_specific_insight
GenerateSpecificInsight ==
    /\ op = "specific_insight" /\ pc = "begun"
    /\ \E gemini \in RemoteOutcomes :
           /\ Finish(generate_specific_insight(params.context_type, gemini))
           /\ work' = gemini
           /\ remoteCalls' =
                  IF params.context_type \in {"spending", "saving", "budgeting", "goals"}
                  THEN remoteCalls + 1 ELSE remoteCalls
    /\ UNCHANGED <<pureVars, envVars, op, params, df, sufficiency, context,
                   gateEvals, derivations, fits, scored, called>>

\* InsightsService.generate_quick_insight
GenerateQuickInsight ==
    /\ op = "quick_insight" /\ pc = "begun"
    /\ \E gemini \in RemoteOutcomes :
           /\ Finish(generate_quick_insight(params.prompt, EmptyContext, gemini))
           /\ work' = gemini
           /\ remoteCalls' = remoteCalls + 1
    /\ UNCHANGED <<pureVars, envVars, op, params, df, sufficiency, context,
                   gateEvals, derivations, fits, scored, called>>

Next ==
    \/ Begin
    \/ StoreWrite
    \/ Respond
    \/ TrainAndPredict
    \/ GetCategoryForecast
    \/ DetectAnomalies
    \/ GetCategoryAnomalies
    \/ RecommendBudgetsGate
    \/ RecommendBudgetsAnalyze
    \/ OptimizeBudgetAllocation
    \/ PredictGoalAchievement
    \/ AnalyzeAllGoalsGate
    \/ AnalyzeAllGoalsSavings
    \/ AnalyzeAllGoalsGoal
    \/ InsightsGate
    \/ GatherSummary
    \/ GatherForecast
    \/ GatherAnomalies
    \/ GatherBudget
    \/ GatherGoals
    \/ InsightsNarrate
    \/ GenerateSpecificInsight
    \/ GenerateQuickInsight

Spec == Init /\ [][Next]_vars

----------------------------------------------------------------------------
(* _gather_financial_context on its own: every outcome of the financial
   summary and of the four sub-analyses (an envelope with success true, an
   envelope with success false, an exception) *)

SummaryStubs ==
    {NoValue,
     [total_income |-> 900 * Cents, total_expenses |-> 400 * Cents,
      net_balance |-> 500 * Cents, transaction_count |-> 36,
      avg_daily_spending |-> 13 * Cents]}

ForecastStubs ==
    {[success |-> TRUE, forecast |-> <<>>,
      statistics |-> [historical_avg_daily |-> 10 * Cents,
                      forecast_avg_daily |-> 12 * Cents,
                      trend_percentage |-> Num(20 * Cents)]],
     [success |-> FALSE, error |-> <<"Insufficient data for forecasting">>,
      forecast |-> <<>>, statistics |-> NoValue],
     Raise(<<"forecast raised">>)}

AnomalyStubs ==
    {[success |-> TRUE, anomalies |-> <<>>,
      statistics |-> [anomalies_detected |-> 2,
                      total_anomalous_spending |-> 400 * Cents]],
     [success |-> FALSE, error |-> <<"Insufficient data for anomaly detection">>,
      anomalies |-> <<>>, statistics |-> NoValue],
     Raise(<<"anomalies raised">>)}

BudgetStubs ==
    {[success |-> TRUE, recommendations |-> <<>>,
      total_recommended_budget |-> 450 * Cents],
     [success |-> FALSE, error |-> <<"Insufficient data for budget recommendations">>,
      recommendations |-> <<>>, total_recommended_budget |-> 0],
     Raise(<<"budget raised">>)}

GoalsStubs ==
    {[success |-> TRUE, total_goals |-> 2, goals |-> <<>>,
      total_monthly_commitment |-> 100 * Cents,
      overall_assessment |-> "on_track"],
     [success |-> FALSE, error |-> <<"Insufficient transaction data for goals analysis">>,
      total_goals |-> 2, goals |-> <<>>],
     Raise(<<"goals raised">>)}

GatherInit ==
    /\ args \in [summary : SummaryStubs, forecast : ForecastStubs,
                 anomalies : AnomalyStubs, budget : BudgetStubs,
                 goals : GoalsStubs]
    /\ ret = NoValue
    /\ store = <<>>
    /\ goalsStore = <<>>
    /\ writes = 0
    /\ now = 0
    /\ ProcessStart
    /\ op = "gather"
    /\ pc = "summary"
    /\ params = NoValue
    /\ df = <<>>
    /\ sufficiency = NoValue
    /\ work = NoValue
    /\ context = EmptyContext
    /\ result = NoValue
    /\ escaped = FALSE
    /\ gateEvals = {}
    /\ derivations = {}
    /\ fits = NoFits
    /\ scored = 0
    /\ remoteCalls = 0
    /\ called = <<>>

\* one step of _gather_financial_context: the context after it, the
\* sub-analysis it invoked (if any), and the next position
GatherStep(ctx, invoked, next) ==
    /\ context' = ctx
    /\ called' = called \o invoked
    /\ pc' = next
    /\ UNCHANGED <<args, envVars, op, params, df, sufficiency, work, result,
                   escaped, gateEvals, derivations, fits, scored, remoteCalls>>

StubSummary ==
    /\ op = "gather" /\ pc = "summary"
    /\ GatherStep(ctx_summary(context, args.summary), <<>>, "forecast")
    /\ UNCHANGED ret

StubForecast ==
    /\ op = "gather" /\ pc = "forecast"
    /\ GatherStep(ctx_forecast(context, args.forecast), <<"forecast">>, "anomalies")
    /\ UNCHANGED ret

StubAnomalies ==
    /\ op = "gather" /\ pc = "anomalies"
    /\ GatherStep(ctx_anomalies(context, args.anomalies), <<"anomalies">>, "budget")
    /\ UNCHANGED ret

StubBudget ==
    /\ op = "gather" /\ pc = "budget"
    /\ GatherStep(ctx_budget(context, args.budget), <<"budget">>, "goals")
    /\ UNCHANGED ret

StubGoals ==
    /\ op = "gather" /\ pc = "goals"
    /\ GatherStep(ctx_goals(context, args.goals), <<"goals">>, "return")
    /\ UNCHANGED ret

\* return context
StubReturn ==
    /\ op = "gather" /\ pc = "return"
    /\ ret' = context
    /\ GatherStep(context, <<>>, "done")

GatherNext ==
    \/ StubSummary
    \/ StubForecast
    \/ StubAnomalies
    \/ StubBudget
    \/ StubGoals
    \/ StubReturn

SpecGather == GatherInit /\ [][GatherNext]_vars

----------------------------------------------------------------------------
(* train_and_predict as a function of the fetched sample, the horizon and what
   the time-series model does *)

\* a horizon past the 30 days over which the fallback applies its trend in full
LongHorizon == 33

\* amounts of the expense rows of a forecast history
ForecastAmounts == {0, 10, 30}

\* histories spanning 31 days: an expense on the first and on the last day,
\* with or without one in the last week
ForecastSamples ==
    {<<Tx(0, "expense", "Food", a), Tx(30, "expense", "Food", b)>> :
         a \in ForecastAmounts, b \in ForecastAmounts}
    \cup
    {<<Tx(0, "expense", "Food", a), Tx(27, "expense", "Food", c),
       Tx(30, "expense", "Food", b)>> :
         a \in ForecastAmounts, b \in ForecastAmounts, c \in ForecastAmounts}

\* what Prophet does: it raises, or predicts a level with its interval around
\* it (below zero, across zero, above zero)
ForecastModelOutcomes ==
    {[raised |-> TRUE]}
    \cup {[raised |-> FALSE, level |-> l * Cents] : l \in {-20, -5, 0, 5, 20}}

ForecastInit ==
    /\ args \in [df : ForecastSamples,
                 forecast_days : (0..MaxHorizon) \cup {LongHorizon},
                 prophet : ForecastModelOutcomes]
    /\ ret = NoValue
    /\ store = <<>>
    /\ goalsStore = <<>>
    /\ writes = 0
    /\ now = 0
    /\ IdleRequest

ForecastCall ==
    /\ ret = NoValue
    /\ ret' = train_and_predict(args.df, args.forecast_days, args.prophet)
    /\ UNCHANGED <<args, envVars, reqVars, histVars>>

ForecastNext == ForecastCall

SpecForecast == ForecastInit /\ [][ForecastNext]_vars

----------------------------------------------------------------------------

(* optimize_budget_allocation as a function of the fetched sample and the
   total budget *)

\* most categories a sample of the allocation harness has
MaxCategories == 6

\* the monthly spend of a category, in whole currency units: one at most 200
\* (low priority), one above 200 (medium), one above 500 (high)
AllocationAmounts == {100, 300, 600}

\* the budgets to allocate, in cents
AllocationBudgets == {2, 100 * Cents, 1000 * Cents}

CategoryName(k) == "Category " \o ToString(k)

\* one expense row per category, all in the month of the request
AllocationSamples ==
    UNION {{[k \in 1..n |-> Tx(NowDay, "expense", CategoryName(k), amounts[k])] :
                amounts \in [1..n -> AllocationAmounts]} :
           n \in 1..MaxCategories}

AllocateInit ==
    /\ args \in [df : AllocationSamples,
                 total_budget : AllocationBudgets]
    /\ ret = NoValue
    /\ store = <<>>
    /\ goalsStore = <<>>
    /\ writes = 0
    /\ now = 0
    /\ IdleRequest

AllocateCall ==
    /\ ret = NoValue
    /\ ret' = optimize_budget_allocation(args.df, args.total_budget)
    /\ UNCHANGED <<args, envVars, reqVars, histVars>>

AllocateNext == AllocateCall

SpecAllocate == AllocateInit /\ [][AllocateNext]_vars

----------------------------------------------------------------------------

(* predict_goal_achievement and calculate_savings_rate as functions of the
   store, the outcome of the fetch and the goal *)

\* the stores of the goal harness: no rows; one calendar month with savings;
\* two months with the same savings; two months with different savings; two
\* months that lose money
GoalHistories ==
    {<<>>,
     <<Tx(31, "income", "Salary", 100), Tx(32, "expense", "Food", 40)>>,
     <<Tx(5, "income", "Salary", 100), Tx(6, "expense", "Food", 40),
       Tx(31, "income", "Salary", 100), Tx(32, "expense", "Food", 40)>>,
     <<Tx(5, "income", "Salary", 100), Tx(6, "expense", "Food", 40),
       Tx(31, "income", "Salary", 100), Tx(32, "expense", "Food", 80)>>,
     <<Tx(6, "expense", "Food", 50), Tx(31, "income", "Salary", 10)>>}

\* the deadlines of the goal harness: none, one strptime rejects, a past one,
\* today, one later in the current month, one in two months, one in a year
GoalDeadlines ==
    {NoValue, [malformed |-> TRUE], [day |-> 10], [day |-> NowDay],
     [day |-> NowDay + 5],
     [day |-> NowDay + 2 * DaysPerMonth], [day |-> NowDay + 12 * DaysPerMonth]}

GoalInit ==
    /\ args \in [fn : {"predict_goal_achievement"},
                 store : GoalHistories,
                 dbError : BOOLEAN,
                 target_amount : {0, 1000 * Cents},
                 current_amount : {0, 200 * Cents, 1000 * Cents, 1500 * Cents},
                 monthly_contribution : {0, 5 * Cents, 100 * Cents},
                 deadline : GoalDeadlines]
               \cup [fn : {"calculate_savings_rate"},
                     store : GoalHistories,
                     dbError : BOOLEAN]
    /\ ret = NoValue
    /\ store = <<>>
    /\ goalsStore = <<>>
    /\ writes = 0
    /\ now = NowDay * TicksPerDay
    /\ IdleRequest

\* the sample calculate_savings_rate fetches: the last six months
GoalSample == get_user_transactions(args.store, args.dbError, 180, FALSE, now)

PredictGoalCall ==
    /\ ret = NoValue
    /\ args.fn = "predict_goal_achievement"
    /\ ret' = predict_goal_achievement(GoalSample, args.target_amount,
                                       args.current_amount, args.monthly_contribution,
                                       args.deadline, now)
    /\ UNCHANGED <<args, envVars, reqVars, histVars>>

SavingsRateCall ==
    /\ ret = NoValue
    /\ args.fn = "calculate_savings_rate"
    /\ ret' = calculate_savings_rate(GoalSample)
    /\ UNCHANGED <<args, envVars, reqVars, histVars>>

GoalNext == PredictGoalCall \/ SavingsRateCall

SpecGoal == GoalInit /\ [][GoalNext]_vars

----------------------------------------------------------------------------

(* analyze_all_goals as a function of the goals and the store *)

\* 31 rows on 31 days that pass the gate of analyze_all_goals and lose money
\* in both calendar months
DeficitStore ==
    [i \in 1..31 |->
        Tx(i - 1,
           IF i % 6 = 0 \/ i = 31 THEN "income" ELSE "expense",
           "Food",
           IF i % 6 = 0 \/ i = 31 THEN 10 ELSE 20)]

\* goals: without a deadline, with one three months ahead (large and small),
\* with a past one, already achieved, with a deadline strptime rejects
PortfolioGoals ==
    {[title |-> "Open", targetAmount |-> 1000 * Cents,
      currentAmount |-> 100 * Cents, deadline |-> NoValue],
     CarGoal,
     [title |-> "Bike", targetAmount |-> 130 * Cents,
      currentAmount |-> 100 * Cents, deadline |-> [day |-> NowDay + 90]],
     [title |-> "Late", targetAmount |-> 1000 * Cents,
      currentAmount |-> 100 * Cents, deadline |-> [day |-> 10]],
     [title |-> "Done", targetAmount |-> 500 * Cents,
      currentAmount |-> 500 * Cents, deadline |-> [day |-> NowDay + 90]],
     [title |-> "Typo", targetAmount |-> 1000 * Cents,
      currentAmount |-> 100 * Cents, deadline |-> [malformed |-> TRUE]]}

PortfolioInit ==
    /\ args \in [goals : UNION {[1..n -> PortfolioGoals] : n \in 1..2},
                 store : {RichStore, ExactStore, DeficitStore}]
    /\ ret = NoValue
    /\ store = <<>>
    /\ goalsStore = <<>>
    /\ writes = 0
    /\ now = NowDay * TicksPerDay
    /\ IdleRequest

PortfolioCall ==
    /\ ret = NoValue
    /\ LET dGate == get_user_transactions(args.store, FALSE, 365, FALSE, now)
           d == get_user_transactions(args.store, FALSE, 180, FALSE, now)
       IN ret' = analyze_all_goals_except(
                     analyze_all_goals(args.goals, dGate, d,
                                       [k \in 1..Len(args.goals) |-> d], now))
    /\ UNCHANGED <<args, envVars, reqVars, histVars>>

PortfolioNext == PortfolioCall

SpecPortfolio == PortfolioInit /\ [][PortfolioNext]_vars

----------------------------------------------------------------------------

----------------------------------------------------------------------------
(* get_category_anomalies over small expense histories *)

OutlierAmounts == {10, 20, 100}

\* four to six Food expenses, three Rent expenses and one income row
OutlierStores ==
    {[i \in 1..(n + 4) |->
         IF i <= n THEN Tx(i, "expense", "Food", f[i])
         ELSE IF i = n + 4 THEN Tx(i, "income", "Salary", 100)
         ELSE Tx(i, "expense", "Rent", 50)] :
     n \in 4..6, f \in [1..6 -> OutlierAmounts]}

OutlierInit ==
    /\ args \in [store : OutlierStores]
    /\ ret = NoValue
    /\ store = <<>>
    /\ goalsStore = <<>>
    /\ writes = 0
    /\ now = NowDay * TicksPerDay
    /\ IdleRequest

CategoryAnomaliesCall ==
    /\ ret = NoValue
    /\ ret' = get_category_anomalies(
                  get_user_transactions(args.store, FALSE, 90, TRUE, now), 90)
    /\ UNCHANGED <<args, envVars, reqVars, histVars>>

OutlierNext == CategoryAnomaliesCall

SpecOutlier == OutlierInit /\ [][OutlierNext]_vars

----------------------------------------------------------------------------
(* BudgetService over small histories: recommend_budgets and _calculate_trend *)

BudgetFoodAmounts == {0, 10, 20, 23}
BudgetRentAmounts == {5, 50}
BudgetApproaches == {"conservative", "balanced", "flexible", "frugal"}

\* 36 rows on days 10..45, 30 of them expenses: Food spends a per row in the
\* first calendar month and b in the second, Rent spends c throughout
BudgetStore(a, b, c) ==
    [i \in 1..36 |->
        Tx(9 + i,
           IF i % 6 = 0 THEN "income" ELSE "expense",
           IF i % 2 = 1 THEN "Food" ELSE "Rent",
           IF i % 6 = 0 THEN 100
           ELSE IF i % 2 = 0 THEN c
           ELSE IF 9 + i < DaysPerMonth THEN a ELSE b)]

BudgetStores ==
    {BudgetStore(a, b, c) : a \in BudgetFoodAmounts, b \in BudgetFoodAmounts,
                            c \in BudgetRentAmounts}

\* monthly totals in cents, around the 15 percent thresholds
TrendValues == {0, 84 * Cents, 85 * Cents, 100 * Cents, 115 * Cents, 116 * Cents}
MaxMonths == 3

BudgetInit ==
    /\ args \in [fn : {"recommend_budgets"},
                 store : BudgetStores,
                 approach : BudgetApproaches]
               \cup [fn : {"_calculate_trend"},
                     monthly_data : UNION {[1..n -> TrendValues] : n \in 0..MaxMonths}]
    /\ ret = NoValue
    /\ store = <<>>
    /\ goalsStore = <<>>
    /\ writes = 0
    /\ now = NowDay * TicksPerDay
    /\ IdleRequest

\* the sample analyze_spending_patterns fetches: the last six months
BudgetSample == get_user_transactions(args.store, FALSE, 180, FALSE, now)

RecommendCall ==
    /\ ret = NoValue
    /\ args.fn = "recommend_budgets"
    /\ ret' = recommend_budgets(
                  get_user_transactions(args.store, FALSE, 0, TRUE, now),
                  BudgetSample, args.approach)
    /\ UNCHANGED <<args, envVars, reqVars, histVars>>

TrendCall ==
    /\ ret = NoValue
    /\ args.fn = "_calculate_trend"
    /\ ret' = [trend |-> calculate_trend(args.monthly_data)]
    /\ UNCHANGED <<args, envVars, reqVars, histVars>>

BudgetNext == RecommendCall \/ TrendCall

SpecBudget == BudgetInit /\ [][BudgetNext]_vars

----------------------------------------------------------------------------
(* The HTTP boundary: main.py maps the envelope of a service to a response *)

Endpoints ==
    {"predict_spending", "predict_spending_by_category", "detect_anomalies",
     "detect_category_anomalies", "recommend_budgets", "optimize_budget",
     "predict_goal_achievement", "analyze_all_goals", "generate_insights",
     "generate_specific_insights", "generate_quick_insights"}

\* result.get("error", <default>) of each endpoint
DefaultDetail(endpoint) ==
    CASE endpoint = "predict_spending" -> "Forecast failed"
      [] endpoint = "predict_spending_by_category" -> "Category forecast failed"
      [] endpoint = "detect_anomalies" -> "Anomaly detection failed"
      [] endpoint = "detect_category_anomalies" -> "Category anomaly detection failed"
      [] endpoint = "recommend_budgets" -> "Budget recommendation failed"
      [] endpoint = "optimize_budget" -> "Budget optimization failed"
      [] endpoint = "predict_goal_achievement" -> "Goal prediction failed"
      [] endpoint = "generate_insights" -> "Insights generation failed"
      [] endpoint = "generate_specific_insights" -> "Specific insight generation failed"
      [] endpoint = "generate_quick_insights" -> "Quick insight generation failed"
      [] OTHER -> "failed"

HTTPException(status_code, detail) ==
    [status_code |-> status_code, status |-> "error", detail |-> detail]

Success200(user_id, envelope) ==
    [status_code |-> 200, status |-> "success", user_id |-> user_id, data |-> envelope]

\* a variant of the boundary that maps every endpoint the same way
Endpoint_uniform(endpoint, user_id, out) ==
    IF IsRaise(out) THEN HTTPException(500, <<endpoint, " error: ", out.exception>>)
    ELSE IF ~out.success
    THEN HTTPException(400, IF "error" \in DOMAIN out THEN out.error
                            ELSE <<DefaultDetail(endpoint)>>)
    ELSE Success200(user_id, out)

\* one endpoint of main.py on what its service call produced: an envelope or
\* an exception
Endpoint(endpoint, user_id, out) ==
    IF IsRaise(out) THEN HTTPException(500, <<endpoint, " error: ", out.exception>>)
    ELSE IF endpoint = "analyze_all_goals" THEN Success200(user_id, out)
    ELSE IF ~out.success
    THEN HTTPException(400, IF "error" \in DOMAIN out THEN out.error
                            ELSE <<DefaultDetail(endpoint)>>)
    ELSE Success200(user_id, out)

\* what a service call can produce
ServiceOutcomes ==
    [success : {TRUE}, total_goals : {0, 2}]
        \cup [success : {FALSE}, error : {<<"No transaction data">>}, total_goals : {0, 2}]
        \cup {[success |-> FALSE], Raise("connection refused")}

BoundaryInit ==
    /\ args \in [endpoint : Endpoints, user_id : {"u1"}, out : ServiceOutcomes]
    /\ ret = NoValue
    /\ store = <<>>
    /\ goalsStore = <<>>
    /\ writes = 0
    /\ now = NowDay * TicksPerDay
    /\ IdleRequest

EndpointCall ==
    /\ ret = NoValue
    /\ ret' = Endpoint(args.endpoint, args.user_id, args.out)
    /\ UNCHANGED <<args, envVars, reqVars, histVars>>

BoundaryNext == EndpointCall

SpecBoundary == BoundaryInit /\ [][BoundaryNext]_vars

----------------------------------------------------------------------------
(* DataFetcher.get_spending_by_category and get_financial_summary over
   stores with rows of different ages *)

MaxRows == 3
WindowDays == {7, 30}

\* rows from 45 days ago, 5 days ago and today
AgedRows ==
    {Tx(day, type, "Food", amount) :
        day \in {0, NowDay - 5, NowDay}, type \in {"income", "expense"},
        amount \in {10, 20}}

WindowInit ==
    /\ args \in [fn : {"get_spending_by_category", "get_financial_summary"},
                 store : UNION {[1..n -> AgedRows] : n \in 1..MaxRows},
                 days : WindowDays]
    /\ ret = NoValue
    /\ store = <<>>
    /\ goalsStore = <<>>
    /\ writes = 0
    /\ now = NowDay * TicksPerDay
    /\ IdleRequest

\* DataFetcher.get_user_transactions(user_id, days): use_all_data keeps its
\* default, True
WindowFetch == get_user_transactions(args.store, FALSE, args.days, TRUE, now)

SpendingByCategoryCall ==
    /\ ret = NoValue
    /\ args.fn = "get_spending_by_category"
    /\ ret' = [category_spending |-> get_spending_by_category(WindowFetch)]
    /\ UNCHANGED <<args, envVars, reqVars, histVars>>

FinancialSummaryCall ==
    /\ ret = NoValue
    /\ args.fn = "get_financial_summary"
    /\ ret' = get_financial_summary(WindowFetch, WindowFetch, args.days)
    /\ UNCHANGED <<args, envVars, reqVars, histVars>>

WindowNext == SpendingByCategoryCall \/ FinancialSummaryCall

SpecWindow == WindowInit /\ [][WindowNext]_vars

----------------------------------------------------------------------------
(* detect_anomalies over histories whose last expense varies in weekday and
   amount *)

LastAmounts == {5, 12, 20, 30, 45, 100}

\* 30 expenses on days 0..27 and one more on one of the seven days 30..36
ReasonStore(offset, amount) ==
    [i \in 1..31 |->
        IF i = 31 THEN Tx(30 + offset, "expense", "Food", amount)
        ELSE Tx(((i - 1) * 27) \div 29, "expense", "Food", 10 + 5 * (i % 3))]

ReasonForests ==
    {[raised |-> FALSE, flagged |-> {31}],
     [raised |-> FALSE, flagged |-> {6, 7, 8}],
     [raised |-> FALSE, flagged |-> {}]}

ReasonInit ==
    /\ args \in [store : {ReasonStore(o, a) : o \in 0..6, a \in LastAmounts},
                 forest : ReasonForests]
    /\ ret = NoValue
    /\ store = <<>>
    /\ goalsStore = <<>>
    /\ writes = 0
    /\ now = NowDay * TicksPerDay
    /\ IdleRequest

DetectAnomaliesCall ==
    /\ ret = NoValue
    /\ ret' = detect_anomalies(
                  get_user_transactions(args.store, FALSE, 90, TRUE, now),
                  90, args.forest)
    /\ UNCHANGED <<args, envVars, reqVars, histVars>>

ReasonNext == DetectAnomaliesCall

SpecReason == ReasonInit /\ [][ReasonNext]_vars

----------------------------------------------------------------------------
(* get_category_forecast on several threads of one process: the refit path
   swaps the process-wide sys.stderr *)

MaxCategoriesPerRequest == 2

\* what the fit of one category does: it succeeds, it raises AttributeError
\* and the refit succeeds, or it raises AttributeError and the refit raises
CategoryFits == {"fit", "refit", "refit_raises"}

CategoryRuns == UNION {[1..n -> CategoryFits] : n \in 1..MaxCategoriesPerRequest}

StderrInit ==
    /\ args \in [requests : [Threads -> CategoryRuns]]
    /\ ret = NoValue
    /\ store = <<>>
    /\ goalsStore = <<>>
    /\ writes = 0
    /\ now = 0
    /\ IdleRequest

\* the stream open(os.devnull, 'w') returns on thread t for its k-th category
DevNull(t, k) == "null" \o ToString(t) \o ToString(k)

SetThread(t, th) ==
    /\ threads' = [threads EXCEPT ![t] = th]
    /\ UNCHANGED <<pureVars, store, goalsStore, writes, now, reqVars, histVars>>

\* the request arrives on thread t
BeginForecast(t) ==
    /\ threads[t].pc = "idle"
    /\ SetThread(t, [threads[t] EXCEPT !.pc = "loop"])
    /\ UNCHANGED <<sys_stderr, closed>>

\* one iteration of the loop up to the first model.fit, or the return after
\* the last category
FitCategory(t) ==
    LET th == threads[t]
        run == args.requests[t]
    IN /\ th.pc = "loop"
       /\ SetThread(t, IF th.k > Len(run) THEN [th EXCEPT !.pc = "done"]
                       ELSE IF run[th.k] = "fit" THEN [th EXCEPT !.k = th.k + 1]
                       ELSE [th EXCEPT !.pc = "caught"])
       /\ UNCHANGED <<sys_stderr, closed>>

\* old_stderr = sys.stderr
SaveStderr(t) ==
    /\ threads[t].pc = "caught"
    /\ SetThread(t, [threads[t] EXCEPT !.pc = "saved", !.old_stderr = sys_stderr])
    /\ UNCHANGED <<sys_stderr, closed>>

\* sys.stderr = open(os.devnull, 'w')
RedirectStderr(t) ==
    /\ threads[t].pc = "saved"
    /\ sys_stderr' = DevNull(t, threads[t].k)
    /\ SetThread(t, [threads[t] EXCEPT !.pc = "refit"])
    /\ UNCHANGED closed

\* model.fit(daily_data) again, inside try ... finally
Refit(t) ==
    /\ threads[t].pc = "refit"
    /\ SetThread(t, [threads[t] EXCEPT
                        !.pc = "finally",
                        !.success = args.requests[t][threads[t].k] = "refit"])
    /\ UNCHANGED <<sys_stderr, closed>>

\* finally: sys.stderr.close()
CloseStderr(t) ==
    /\ threads[t].pc = "finally"
    /\ closed' = closed \cup {sys_stderr}
    /\ SetThread(t, [threads[t] EXCEPT !.pc = "restore"])
    /\ UNCHANGED sys_stderr

\* finally: sys.stderr = old_stderr; then the next category, or the outer
\* handler when the refit raised
RestoreStderr(t) ==
    LET th == threads[t]
    IN /\ th.pc = "restore"
       /\ sys_stderr' = th.old_stderr
       /\ SetThread(t, IF th.success THEN [th EXCEPT !.pc = "loop", !.k = th.k + 1]
                       ELSE [th EXCEPT !.pc = "done"])
       /\ UNCHANGED closed

StderrNext ==
    \E t \in Threads :
        \/ BeginForecast(t)
        \/ FitCategory(t)
        \/ SaveStderr(t)
        \/ RedirectStderr(t)
        \/ Refit(t)
        \/ CloseStderr(t)
        \/ RestoreStderr(t)

SpecStderr == StderrInit /\ [][StderrNext]_vars

(* C1: for every non-empty sample and every threshold triple the verdict is
   sufficient exactly when the measured span reaches min_days, the row count
   reaches min_transactions and the expense-row count reaches min_expenses;
   each of the three conditions is needed on its own. *)
C1_SufficientIffAllThree ==
    (ret # NoValue /\ args.df # <<>>) =>
        /\ ret.total_transactions = Len(args.df)
        /\ ret.expense_transactions =
               Cardinality({i \in 1..Len(args.df) : args.df[i].type = "expense"})
        /\ ret.sufficient =
               (/\ ret.days_of_data >= args.min_days
                /\ ret.total_transactions >= args.min_transactions
                /\ ret.expense_transactions >= args.min_expenses)

\* a sample meeting the three thresholds exactly: one row or one day less
\* would fail
C1_Witness_ExactlyAtThresholds ==
    /\ ret # NoValue
    /\ args.df # <<>>
    /\ args.min_days = MaxThr
    /\ ret.days_of_data = args.min_days
    /\ ret.total_transactions = args.min_transactions
    /\ ret.expense_transactions = args.min_expenses
    /\ ret.sufficient

----------------------------------------------------------------------------
\* text contains sub verbatim
Contains(text, sub) ==
    \E i \in 0..(Len(text) - Len(sub)) : SubSeq(text, i + 1, i + Len(sub)) = sub

\* the analytical operations
AnalyticalOps ==
    {"forecast", "category_forecast", "anomalies", "category_anomalies",
     "budget", "optimize", "goals", "insights"}

(* C2: every analytical operation evaluates the sufficiency gate before it
   fits a model or computes statistics, and does neither when the verdict is
   insufficient: every fit or statistic of the request was preceded by a
   sufficient verdict of the gate in the same analysis. *)
C2_GatePassedBeforeEveryDerivation ==
    \A x \in derivations :
        x.by \in AnalyticalOps =>
            \E g \in gateEvals : g.by = x.by /\ g.sufficient

(* C3: every public operation resolves to an envelope with a boolean
   success field whatever its collaborators do; no exception propagates past
   the operation, and a failure carries an error message. *)
C3_EnvelopeForEveryOutcome ==
    /\ ~escaped
    /\ pc = "done" =>
           /\ result # NoValue
           /\ "success" \in DOMAIN result
           /\ result.success \in BOOLEAN
           /\ ~result.success =>
                  "error" \in DOMAIN result /\ result.error # <<>>

\* an arithmetic error inside predict_goal_achievement came back as an
\* envelope
C3_Witness_ArithmeticErrorEnveloped ==
    /\ op = "goal" /\ pc = "done"
    /\ params.target_amount = 0
    /\ result # NoValue
    /\ ~result.success
    /\ result.error = <<"float division by zero">>

(* C4: in train_and_predict, once the span check has passed, a failure of
   the time-series model is replaced by the fallback forecast: success is
   true, there are exactly forecast_days points, and there is no error
   field. *)
C4_FallbackForecastSucceeds ==
    (op = "forecast" /\ pc = "done" /\ ForecastFits(df) /\ work.raised) =>
        /\ result.success
        /\ Len(result.forecast) = params.forecast_days
        /\ "error" \notin DOMAIN result

(* C5: a failure of the outlier model in detect_anomalies, or of the
   per-category fit or predict in get_category_forecast, is replaced locally
   by a fallback result and never comes back as success = false. *)
C5_ModelFailureNeverSurfaces ==
    /\ (op = "anomalies" /\ pc = "done" /\ sufficiency.sufficient /\ work.raised) =>
           result.success
    /\ (/\ op = "category_forecast" /\ pc = "done"
        /\ \E c \in DOMAIN fits :
               fits[c] >= 1 /\ work[c] \in {"attr_raise", "raise", "predict_raise"}) =>
           result.success

(* C6: in generate_comprehensive_insights, once the gate has passed and the
   context has data, a failure of the remote narrative call gives
   success = true, ai_unavailable = true and the text of the rule-based
   generator, which is a function of the context alone and calls nothing
   remote (the failed call stays the only one); a successful remote call
   gives its text and no ai_unavailable flag. *)
C6_RemoteFailureFallsBack ==
    (op = "insights" /\ pc = "done" /\ sufficiency.sufficient /\ context.has_data) =>
        /\ result.success
        /\ remoteCalls = 1
        /\ IF work.raised
           THEN /\ "ai_unavailable" \in DOMAIN result
                /\ result.ai_unavailable = TRUE
                /\ result.insights = generate_basic_insights(context)
           ELSE /\ "ai_unavailable" \notin DOMAIN result
                /\ result.insights = work.text

\* the remote call failed in a request whose context has a forecast
C6_Witness_DegradedNarrative ==
    /\ op = "insights" /\ pc = "done"
    /\ sufficiency.sufficient
    /\ work.raised
    /\ "forecast" \in DOMAIN context
    /\ result.ai_unavailable
    /\ Len(result.insights) > 10

(* C7: within one request nothing is retried: the time-series model is
   fitted at most once per series (the whole portfolio, each category) and
   the remote narrative capability is invoked at most once. *)
C7_NoRetry ==
    /\ \A series \in DOMAIN fits : fits[series] <= 1
    /\ remoteCalls <= 1

\* the sub-analysis returned an envelope with success = true
Succeeded(out) == ~IsRaise(out) /\ out.success

(* C8: _gather_financial_context invokes the four sub-analyses, in order,
   whatever each of them does (success, success = false, an exception), and
   the context it returns holds a component's sub-field exactly when that
   component returned success = true. *)
C8_AllFourRunAndMarked ==
    pc = "done" =>
        /\ called = <<"forecast", "anomalies", "budget", "goals">>
        /\ ("forecast" \in DOMAIN ret) = Succeeded(args.forecast)
        /\ ("anomalies" \in DOMAIN ret) = Succeeded(args.anomalies)
        /\ ("budget_recommendations" \in DOMAIN ret) = Succeeded(args.budget)
        /\ ("goals_analysis" \in DOMAIN ret) = Succeeded(args.goals)
        /\ Succeeded(args.forecast) => ret.forecast = args.forecast.statistics
        /\ Succeeded(args.goals) => ret.goals_analysis = args.goals

\* forecast succeeded, anomalies raised, budget said success = false, goals
\* succeeded: the first and the last are in the context, the others are not
C8_Witness_MixedOutcomes ==
    /\ pc = "done"
    /\ Succeeded(args.forecast)
    /\ IsRaise(args.anomalies)
    /\ ~IsRaise(args.budget) /\ ~args.budget.success
    /\ Succeeded(args.goals)
    /\ DOMAIN ret \cap {"forecast", "anomalies", "budget_recommendations",
                        "goals_analysis"} = {"forecast", "goals_analysis"}

\* the samples the request has used
SamplesUsed ==
    {g.sample : g \in gateEvals} \cup {x.sample : x \in derivations}

(* C9: within one request the gate verdict and every derived output are
   computed from one and the same fetched sample, also when the store is
   modified while the request runs. *)
C9_OneSamplePerRequest ==
    \A x \in SamplesUsed : \A y \in SamplesUsed : x = y

\* the verdict of the shared gate on the sample of train_and_predict
ForecastVerdict ==
    check_data_sufficiency(df, FORECAST_MIN_DAYS, MIN_TRANSACTIONS, MIN_EXPENSES)

\* the operation's sufficiency check failed, and the verdict of the gate
GateFailed ==
    IF op = "forecast" THEN ~ForecastFits(df)
    ELSE sufficiency # NoValue /\ ~sufficiency.sufficient

GateVerdict == IF op = "forecast" THEN ForecastVerdict ELSE sufficiency

\* the operation-specific result list of an envelope
ResultList(envelope) ==
    IF op = "forecast" THEN envelope.forecast
    ELSE IF op = "anomalies" THEN envelope.anomalies
    ELSE IF op = "budget" THEN envelope.recommendations
    ELSE IF op = "goals" THEN envelope.goals
    ELSE envelope.insights

(* C10: whenever the sufficiency gate of forecast, anomaly detection, budget
   recommendation, goal analysis or insights fails, the operation returns
   success = false, an error text that contains the gate's reason verbatim,
   data_info equal to the gate's verdict, and an empty result list. *)
C10_GateFailureReported ==
    (/\ op \in {"forecast", "anomalies", "budget", "goals", "insights"}
     /\ pc = "done"
     /\ GateFailed) =>
        /\ ~result.success
        /\ Contains(result.error, GateVerdict.reason)
        /\ "data_info" \in DOMAIN result
        /\ result.data_info = GateVerdict
        /\ ResultList(result) = <<>>

----------------------------------------------------------------------------
\* the clause the gate writes for a span shorter than required
DaysClause(measured, required) ==
    <<"Data spans only ", ToString(measured), " days (need ", ToString(required), "+)">>

\* the clause the gate writes for too few rows
TransactionsClause(measured, required) ==
    <<"Only ", ToString(measured), " transactions (need ", ToString(required), "+)">>

\* the clause the gate writes for too few expense rows
ExpensesClause(measured, required) ==
    <<"Only ", ToString(measured), " expense transactions (need ", ToString(required), "+)">>

\* the text mentions the span / the row count / the expense-row count at all
MentionsDays(text) == \E i \in 1..Len(text) : text[i] = "Data spans only "
MentionsTransactions(text) == \E i \in 1..Len(text) : text[i] = " transactions (need "
MentionsExpenses(text) == \E i \in 1..Len(text) : text[i] = " expense transactions (need "

(* C11: for a non-empty sample the reason of the verdict contains, for each
   threshold that fails (days, total transactions, expense transactions), one
   clause stating the measured and the required value, and no clause for a
   threshold that passes; when several thresholds fail all their clauses are
   in the reason together; the reason is "Data is sufficient" exactly when
   no threshold fails. *)
C11_ReasonListsEveryFailingThreshold ==
    (ret # NoValue /\ args.df # <<>>) =>
        LET days_fail == ret.days_of_data < args.min_days
            transactions_fail == ret.total_transactions < args.min_transactions
            expenses_fail == ret.expense_transactions < args.min_expenses
        IN /\ days_fail =>
                 Contains(ret.reason, DaysClause(ret.days_of_data, args.min_days))
           /\ MentionsDays(ret.reason) = days_fail
           /\ transactions_fail =>
                 Contains(ret.reason,
                          TransactionsClause(ret.total_transactions, args.min_transactions))
           /\ MentionsTransactions(ret.reason) = transactions_fail
           /\ expenses_fail =>
                 Contains(ret.reason,
                          ExpensesClause(ret.expense_transactions, args.min_expenses))
           /\ MentionsExpenses(ret.reason) = expenses_fail
           /\ (ret.reason = <<"Data is sufficient">>)
                  = (~days_fail /\ ~transactions_fail /\ ~expenses_fail)

\* a verdict in which all three thresholds fail at once
C11_Witness_AllThreeFail ==
    /\ ret # NoValue
    /\ args.df # <<>>
    /\ ret.days_of_data < args.min_days
    /\ ret.total_transactions < args.min_transactions
    /\ ret.expense_transactions < args.min_expenses
    /\ MentionsDays(ret.reason)
    /\ MentionsTransactions(ret.reason)
    /\ MentionsExpenses(ret.reason)

(* C12: for every non-empty sample days_of_data is at least 1 and equals the
   number of calendar days from the date of the earliest transaction to the
   date of the latest one, inclusive; it is determined by the calendar dates
   alone, whatever the time of day of the transactions. *)
C12_DaysOfDataIsCalendarSpan ==
    (ret # NoValue /\ args.df # <<>>) =>
        /\ ret.days_of_data >= 1
        /\ ret.days_of_data =
               CalendarDay(SeqMax(Dates(args.df))) - CalendarDay(SeqMin(Dates(args.df))) + 1

(* C13: for an empty sample the gate returns sufficient = false, the reason
   "No transaction data found" and the three counts 0, whatever the
   thresholds, thresholds of 0 included, and raises nothing. *)
C13_EmptySampleVerdict ==
    (ret # NoValue /\ args.df = <<>>) =>
        /\ ~IsRaise(ret)
        /\ ret = [sufficient |-> FALSE,
                  reason |-> <<"No transaction data found">>,
                  days_of_data |-> 0,
                  total_transactions |-> 0,
                  expense_transactions |-> 0]

\* the empty sample against thresholds that 0 rows on 0 days would meet
C13_Witness_EmptyWithZeroThresholds ==
    /\ ret # NoValue
    /\ args.df = <<>>
    /\ args.min_days = 0
    /\ args.min_transactions = 0
    /\ args.min_expenses = 0
    /\ ~ret.sufficient

(* C14: every forecast point train_and_predict returns has
   0 <= lower_bound <= predicted_spending <= upper_bound, for every history
   and horizon, horizons past 30 days included, whether the points come from
   the time-series model or from the fallback. *)
C14_ForecastPointsOrdered ==
    (ret # NoValue /\ ret.success) =>
        \A k \in 1..Len(ret.forecast) :
            /\ 0 <= ret.forecast[k].lower_bound
            /\ ret.forecast[k].lower_bound <= ret.forecast[k].predicted_spending
            /\ ret.forecast[k].predicted_spending <= ret.forecast[k].upper_bound

\* the fallback on a falling history, past the day the ramp takes the
\* prediction below zero: the point is clamped, its upper bound is not zero
C14_Witness_FallbackPastFullRamp ==
    /\ ret # NoValue
    /\ args.prophet.raised
    /\ ret.success
    /\ Len(ret.forecast) = LongHorizon
    /\ ret.forecast[1].predicted_spending > 0
    /\ ret.forecast[LongHorizon].predicted_spending = 0
    /\ ret.forecast[LongHorizon].upper_bound > 0

\* the allocations of the response, in cents
AllocatedAmounts(envelope) ==
    [k \in 1..Len(envelope.allocation) |-> envelope.allocation[k].allocated_amount]

(* C15: for any total_budget > 0 and any categories of which at least one has
   a positive monthly spend, the allocated_amount of all categories returned
   by optimize_budget_allocation add up to total_budget within 0.01, for any
   number of categories and any mix of priorities. *)
C15_AllocationsSumToBudget ==
    (ret # NoValue /\ ret.success /\ args.total_budget > 0) =>
        /\ SumSeq(AllocatedAmounts(ret)) - args.total_budget <= 1
        /\ args.total_budget - SumSeq(AllocatedAmounts(ret)) <= 1

(* C16: optimize_budget_allocation with total_budget = 1000 over exactly two
   categories with monthly averages 300 and 100 and no monthly variability
   classifies both as low priority, scales both allocations by 0.9 before
   normalization and returns the final allocations 750.00 and 250.00. *)
C16_Example750And250 ==
    (/\ ret # NoValue
     /\ args.total_budget = 1000 * Cents
     /\ Len(args.df) = 2
     /\ args.df[1].amount = 300
     /\ args.df[2].amount = 100) =>
        /\ ret.success
        /\ \A k \in 1..2 : ret.allocation[k].priority = "low"
        /\ AllocatedAmounts(ret) = <<750 * Cents, 250 * Cents>>

\* the positions of the line breaks of a text, with the two ends
LineBreaks(text) ==
    {0, Len(text) + 1} \cup {i \in 1..Len(text) : text[i] = "\n"}

\* the k-th smallest element of a set of numbers
Kth(S, k) == CHOOSE x \in S : Cardinality({y \in S : y < x}) = k - 1

\* the lines of a text: the pieces between its line breaks
SplitLines(text) ==
    LET breaks == LineBreaks(text)
    IN [k \in 1..(Cardinality(breaks) - 1) |->
           SubSeq(text, Kth(breaks, k) + 1, Kth(breaks, k + 1) - 1)]

\* the four headings of the rule-based narrative
HealthHeading == "**Overall Financial Health Assessment:**"
InsightsHeading == "\n**Top 3 Insights:**"
RecommendationsHeading == "\n**Top 3 Recommendations:**"
CautionHeading == "\n**One Caution:**"

SectionHeadings ==
    {HealthHeading, InsightsHeading, RecommendationsHeading, CautionHeading}

IsHeading(line) == Len(line) = 1 /\ line[1] \in SectionHeadings

\* the lines of the narrative under the given heading, up to the next heading
SectionLines(text, heading) ==
    LET lines == SplitLines(text)
        at == {i \in 1..Len(lines) : lines[i] = <<heading>>}
    IN IF at = {} THEN <<>>
       ELSE LET i == CHOOSE x \in at : \A y \in at : x <= y
                later == {j \in (i + 1)..Len(lines) : IsHeading(lines[j])}
                j == IF later = {} THEN Len(lines) + 1
                     ELSE CHOOSE x \in later : \A y \in later : x <= y
            IN SubSeq(lines, i + 1, j - 1)

\* the section is three lines, numbered 1, 2 and 3
ThreeNumbered(section) ==
    /\ Len(section) = 3
    /\ \A k \in 1..3 : section[k] # <<>> /\ section[k][1] = ToString(k) \o ". "

\* the request was answered with the rule-based narrative
FellBack ==
    /\ op = "insights"
    /\ pc = "done"
    /\ result.success
    /\ "ai_unavailable" \in DOMAIN result

(* C17: the rule-based fallback narrative has the four-section structure for
   every context the aggregator produces: a health-assessment statement under
   the first heading, exactly three insights numbered 1, 2, 3, exactly three
   recommendations numbered 1, 2, 3, and exactly one caution sentence under
   the caution heading. *)
C17_FallbackHasFourSections ==
    FellBack =>
        /\ Len(SectionLines(result.insights, HealthHeading)) = 1
        /\ ThreeNumbered(SectionLines(result.insights, InsightsHeading))
        /\ ThreeNumbered(SectionLines(result.insights, RecommendationsHeading))
        /\ Len(SectionLines(result.insights, CautionHeading)) = 1

\* predict_goal_achievement was called
GoalPredicted == ret # NoValue /\ args.fn = "predict_goal_achievement"

(* C18: predict_goal_achievement with target_amount - current_amount <= 0
   returns success = true, achievement_probability = 100, status "achieved"
   and months_required = 0, whatever the monthly contribution, the deadline
   and the history, and also when the fetch of the transactions fails. *)
C18_AchievedWhenNothingRemains ==
    (GoalPredicted /\ args.target_amount - args.current_amount <= 0) =>
        /\ ret.success
        /\ ret.achievement_probability = 100 * Cents
        /\ ret.status = "achieved"
        /\ ret.months_required = Num(0)

\* exactly the target is saved, nothing is contributed, the deadline is
\* past and the fetch fails
C18_Witness_ExactlyReachedFetchFails ==
    /\ GoalPredicted
    /\ args.target_amount > 0
    /\ args.target_amount = args.current_amount
    /\ args.monthly_contribution = 0
    /\ args.deadline = [day |-> 10]
    /\ args.dbError
    /\ ret.status = "achieved"

\* target, current amount and monthly contribution are positive
PositiveGoal ==
    /\ args.target_amount > 0
    /\ args.current_amount > 0
    /\ args.monthly_contribution > 0

(* C19: for all positive target_amount, current_amount and
   monthly_contribution, any deadline (absent, past, future, malformed) and
   any savings history, the achievement_probability predict_goal_achievement
   returns lies within [5, 95]. *)
C19_ProbabilityWithinBounds ==
    (GoalPredicted /\ PositiveGoal) =>
        /\ ret.achievement_probability >= 5 * Cents
        /\ ret.achievement_probability <= 95 * Cents

(* C19, amended: for all positive target_amount, current_amount and
   monthly_contribution with current_amount below target_amount, any deadline
   and any savings history, the call succeeds with an achievement_probability
   within [5, 95]; with current_amount at or above target_amount the
   probability is 100. *)
C19_ProbabilityWithinBoundsWhileOpen ==
    (GoalPredicted /\ PositiveGoal) =>
        IF args.current_amount < args.target_amount
        THEN /\ ret.success
             /\ ret.achievement_probability >= 5 * Cents
             /\ ret.achievement_probability <= 95 * Cents
        ELSE ret.achievement_probability = 100 * Cents

\* an open goal past its deadline: the probability is held at the lower cap
C19_Witness_PastDeadlineAtLowerCap ==
    /\ GoalPredicted
    /\ PositiveGoal
    /\ args.current_amount < args.target_amount
    /\ args.deadline = [day |-> 10]
    /\ ret.success
    /\ ret.achievement_probability = 5 * Cents

\* the monthly savings of a sample, in cents, by calendar month
MonthlySavings(d) ==
    LET months == Unique([i \in 1..Len(d) |-> MonthOf(d[i].date)])
    IN [k \in 1..Len(months) |->
           MonthTotal(d, "income", months[k]) - MonthTotal(d, "expense", months[k])]

(* C20: for every transaction history, a single calendar month of data,
   months with negative savings and zero average savings included,
   calculate_savings_rate returns a consistency_score that is a defined
   number in [0, 100], equal to 100 - min(std(savings) / avg(savings) * 100,
   100), a non-positive average counting as 100% inconsistency. *)
C20_ConsistencyScoreDefined ==
    (ret # NoValue /\ args.fn = "calculate_savings_rate") =>
        /\ ~ret.consistency_score.nan
        /\ ret.consistency_score.v >= 0
        /\ ret.consistency_score.v <= 100 * Cents
        /\ GoalSample # <<>> =>
               LET savings == MonthlySavings(GoalSample)
                   avg == SumSeq(savings) \div Len(savings)
               IN ret.consistency_score.v =
                      IF avg <= 0 THEN 0
                      ELSE 100 * Cents
                               - Min((StdOf(savings).v * 100 * Cents) \div avg, 100 * Cents)

\* the sum of the monthly contributions of the analyzed goals
TotalImplied(envelope) ==
    SumSeq([k \in 1..Len(envelope.goals) |-> envelope.goals[k].monthly_contribution])

\* the mean achievement probability of the analyzed goals
MeanProbability(envelope) ==
    SumSeq([k \in 1..Len(envelope.goals) |->
               envelope.goals[k].prediction.achievement_probability])
        \div Len(envelope.goals)

(* C21: analyze_all_goals takes as a goal's implied monthly contribution
   (target - current) / months_to_deadline when the goal has a deadline in a
   later month, and 0 when it has no deadline; the portfolio is overcommitted
   exactly when the implied contributions add up to more than
   avg_monthly_savings, otherwise on_track at a mean probability of at least
   70, needs_adjustment at 40 or more, challenging below; a portfolio whose
   goals imply no contribution at all is never overcommitted. *)
C21_PortfolioAssessment ==
    (ret # NoValue /\ ret.success) =>
        /\ \A k \in 1..Len(args.goals) :
               LET goal == args.goals[k]
               IN IF goal.deadline = NoValue
                  THEN ret.goals[k].monthly_contribution = 0
                  ELSE ("day" \in DOMAIN goal.deadline
                        /\ MonthsToDeadline(goal.deadline, now) > 0) =>
                           ret.goals[k].monthly_contribution
                               * MonthsToDeadline(goal.deadline, now)
                             = goal.targetAmount - goal.currentAmount
        /\ ret.overall_assessment =
               IF TotalImplied(ret) > ret.avg_monthly_savings THEN "overcommitted"
               ELSE IF MeanProbability(ret) >= 70 * Cents THEN "on_track"
               ELSE IF MeanProbability(ret) >= 40 * Cents THEN "needs_adjustment"
               ELSE "challenging"
        /\ TotalImplied(ret) = 0 => ret.overall_assessment # "overcommitted"

\* the expense amounts of one category in the fetched store of the harness
AmountsIn(category) ==
    Amounts(OfCategory(Expenses(args.store), category))

\* the number of amounts strictly below Q1 - 1.5 IQR or above Q3 + 1.5 IQR
OutsideFences(ys) ==
    LET Q1 == Quantile4(ys, 1)
        Q3 == Quantile4(ys, 3)
    IN Cardinality({i \in 1..Len(ys) :
           \/ 8 * ys[i] < 2 * Q1 - 3 * (Q3 - Q1)
           \/ 8 * ys[i] > 2 * Q3 + 3 * (Q3 - Q1)})

ReportedCategories == {ret.categories[k].category : k \in 1..Len(ret.categories)}

(* C22: get_category_anomalies reports a category exactly when it has at
   least 5 expense rows; for each reported category outliers_detected is the
   number of rows outside [Q1 - 1.5 IQR, Q3 + 1.5 IQR], never more than
   total_transactions, and 0 when all its amounts are equal. *)
C22_OutliersByIQR ==
    (ret # NoValue /\ ret.success) =>
        /\ \A c \in {"Food", "Rent", "Salary"} :
               c \in ReportedCategories <=> Len(AmountsIn(c)) >= 5
        /\ \A k \in 1..Len(ret.categories) :
               LET ys == AmountsIn(ret.categories[k].category)
               IN /\ ret.categories[k].total_transactions = Len(ys)
                  /\ ret.categories[k].outliers_detected = OutsideFences(ys)
                  /\ ret.categories[k].outliers_detected <= Len(ys)
                  /\ (\A i \in 1..Len(ys) : ys[i] = ys[1]) =>
                         ret.categories[k].outliers_detected = 0

\* a category with an outlier is reported
C22_Witness_OutlierCounted ==
    /\ ret # NoValue
    /\ ret.success
    /\ Len(ret.categories) = 1
    /\ ret.categories[1].outliers_detected = 1
    /\ ret.categories[1].total_transactions = 5

\* the 3 x 3 table of recommend_budgets, in percent
MultiplierTable ==
    [conservative |-> [stable |-> 100, increasing |-> 115, decreasing |-> 90],
     balanced |-> [stable |-> 110, increasing |-> 125, decreasing |-> 100],
     flexible |-> [stable |-> 120, increasing |-> 135, decreasing |-> 110]]

TableRow(approach) ==
    IF approach \in DOMAIN MultiplierTable THEN MultiplierTable[approach]
    ELSE MultiplierTable["balanced"]

Recommended == args.fn = "recommend_budgets" /\ ret # NoValue /\ ret.success

\* the statistics of one category in the analysed sample
StatsOf(category) ==
    LET patterns == analyze_spending_patterns(BudgetSample)
    IN patterns[CHOOSE k \in 1..Len(patterns) : patterns[k].category = category]

(* C23: every recommended_amount of recommend_budgets is monthly_avg times
   the multiplier of (approach, trend) plus half of monthly_std, rounded to
   cents; the multiplier is between 0.90 and 1.35; no recommended_amount is
   negative; total_recommended_budget is the sum of the recommended amounts
   of the returned categories. *)
C23_RecommendedAmountFormula ==
    Recommended =>
        /\ \A k \in 1..Len(ret.recommendations) :
               LET r == ret.recommendations[k]
                   stats == StatsOf(r.category)
                   multiplier == TableRow(args.approach)[stats.trend]
                   exact == stats.monthly_avg * multiplier + 50 * stats.monthly_std
               IN /\ multiplier >= 90 /\ multiplier <= 135
                  /\ 100 * r.recommended_amount - exact <= 50
                  /\ exact - 100 * r.recommended_amount <= 50
                  /\ r.recommended_amount >= 0
        /\ ret.total_recommended_budget =
               SumSeq([k \in 1..Len(ret.recommendations) |->
                          ret.recommendations[k].recommended_amount])

\* a rising category with varying months under the flexible approach
C23_Witness_BufferedIncreasing ==
    /\ Recommended
    /\ args.approach = "flexible"
    /\ \E k \in 1..Len(ret.recommendations) :
           /\ ret.recommendations[k].trend = "increasing"
           /\ StatsOf(ret.recommendations[k].category).monthly_std > 0
           /\ ret.recommendations[k].recommended_amount > 0

TrendComputed == args.fn = "_calculate_trend" /\ ret # NoValue

\* the sum of the first k values
SumFirst(s, k) == SumSeq(SubSeq(s, 1, k))

(* C24: _calculate_trend returns stable for fewer than 2 points; otherwise it
   compares the mean of the first floor(n/2) points with the mean of the
   rest: increasing above +15 percent, decreasing below -15 percent, stable
   in between and at exactly +15 or -15 percent; with a zero first-half mean
   it returns increasing when the second-half mean is positive and stable
   otherwise. *)
C24_TrendThresholds ==
    TrendComputed =>
        LET n == Len(args.monthly_data)
            h == n \div 2
            F == SumFirst(args.monthly_data, h)
            S == SumSeq(args.monthly_data) - F
            \* (mean of the rest - mean of the first) / mean of the first, as
            \* a fraction num / den with den > 0
            num == S * h - F * (n - h)
            den == F * (n - h)
        IN IF n < 2 THEN ret.trend = "stable"
           ELSE IF F = 0 THEN ret.trend = (IF S > 0 THEN "increasing" ELSE "stable")
           ELSE /\ ret.trend = "increasing" <=> 100 * num > 15 * den
                /\ ret.trend = "decreasing" <=> 100 * num < -15 * den
                /\ ret.trend \in {"increasing", "decreasing", "stable"}

\* exactly +15 percent is stable
C24_Witness_ExactlyFifteenPercent ==
    /\ TrendComputed
    /\ args.monthly_data = <<100 * Cents, 115 * Cents>>
    /\ ret.trend = "stable"

(* C25: every endpoint maps the envelope of its service the same way: the
   response has status "success" exactly when the envelope has success =
   true, and an envelope with success = false becomes an error response. *)
C25_UniformEnvelopeMapping ==
    (ret # NoValue /\ ~IsRaise(args.out)) =>
        /\ ret.status = "success" <=> args.out.success
        /\ ~args.out.success => ret.status_code >= 400

(* C25, amended: every endpoint but analyze_all_goals returns status
   "success" exactly when the envelope has success = true and answers an
   envelope with success = false with the error status 400; analyze_all_goals
   answers 200 with status "success" and the envelope as data whatever its
   success field says. *)
C25_MappingExceptAnalyzeAll ==
    (ret # NoValue /\ ~IsRaise(args.out)) =>
        IF args.endpoint = "analyze_all_goals"
        THEN /\ ret.status = "success"
             /\ ret.status_code = 200
             /\ ret.data = args.out
        ELSE /\ ret.status = "success" <=> args.out.success
             /\ ~args.out.success => ret.status_code = 400

\* a failed goals analysis answered with status "success"
C25_Witness_FailedAnalysisReturned200 ==
    /\ ret # NoValue
    /\ args.endpoint = "analyze_all_goals"
    /\ ~IsRaise(args.out)
    /\ ~args.out.success
    /\ "total_goals" \in DOMAIN args.out
    /\ args.out.total_goals = 2
    /\ ret.status = "success"
    /\ ~ret.data.success

\* the rows of the store dated within the last args.days days
InWindow ==
    SelectSeqBy(args.store,
        {i \in 1..Len(args.store) :
            /\ args.store[i].date >= now - args.days * TicksPerDay
            /\ args.store[i].date <= now})

\* the total, in cents, of the rows of d of the given type
TotalOf(d, type) ==
    Cents * SumSeq(Amounts(SelectSeqBy(d, {i \in 1..Len(d) : d[i].type = type})))

(* C26: get_spending_by_category(user, days) and get_financial_summary(user,
   days) aggregate only the transactions of the last `days` days: the
   per-category totals, total_income, total_expenses, transaction_count and
   avg_daily_spending are those of the rows inside the window. *)
C26_OnlyTheWindowIsAggregated ==
    ret # NoValue =>
        IF args.fn = "get_spending_by_category"
        THEN \A k \in 1..Len(ret.category_spending) :
                 ret.category_spending[k].total =
                     TotalOf(OfCategory(InWindow, ret.category_spending[k].category),
                             "expense")
        ELSE /\ ret.total_income = TotalOf(InWindow, "income")
             /\ ret.total_expenses = TotalOf(InWindow, "expense")
             /\ ret.transaction_count = Len(InWindow)
             /\ ret.avg_daily_spending = TotalOf(InWindow, "expense") \div args.days

\* the call went through the probability model: something remained to save
Assessed ==
    /\ GoalPredicted
    /\ ret.success
    /\ "recommendations" \in DOMAIN ret

IsDate(deadline) == deadline # NoValue /\ "day" \in DOMAIN deadline

RequiredMonths ==
    MonthsRequired(args.target_amount - args.current_amount, args.monthly_contribution)

(* C27: the past-deadline penalty of the goal probability model is applied
   when the deadline date is earlier than the current date, and never for a
   deadline date still in the future, one later in the current calendar
   month included. *)
C27_PenaltyOnlyPastDeadline ==
    (Assessed /\ IsDate(args.deadline)) =>
        LET penalised ==
                timeline_adjustment(RequiredMonths, args.deadline, now) = "past_deadline"
        IN /\ args.deadline.day < CalendarDay(now) => penalised
           /\ args.deadline.day > CalendarDay(now) => ~penalised

MeetDeadline == <<"To meet deadline, increase contribution to $", "/month">>

(* C30: _generate_recommendations emits the "To meet deadline, increase
   contribution to $X/month" recommendation only when months_to_deadline > 0
   and the required time exceeds it, with X = remaining / months_to_deadline
   positive; for a deadline that has passed it emits no such recommendation. *)
C30_MeetDeadlineOnlyAhead ==
    Assessed =>
        \A k \in 1..Len(ret.recommendations) :
            ret.recommendations[k].text = MeetDeadline =>
                /\ IsDate(args.deadline)
                /\ MonthsToDeadline(args.deadline, now) > 0
                /\ MonthsExceed(RequiredMonths, MonthsToDeadline(args.deadline, now))
                /\ ret.recommendations[k].amount > 0
                /\ args.deadline.day >= CalendarDay(now)

WeekendClause == <<"Unusually high weekend spending">>
GenericReason == <<"Statistical anomaly detected in spending pattern">>

\* the flagged row an anomaly of the response was built from
FlaggedRow(anomaly) ==
    LET features == prepare_features(Expenses(args.store))
    IN features[CHOOSE k \in args.forest.flagged :
                    /\ CalendarDay(features[k].date) = anomaly.date
                    /\ features[k].amount * Cents = anomaly.amount]

(* C28: the reason of a flagged transaction includes the weekend clause
   exactly when the transaction falls on a Saturday or a Sunday and its
   amount exceeds the mean amount; a weekday transaction never receives it;
   when no rule triggers, the reason is the generic statistical-anomaly
   message. *)
C28_WeekendClauseOnWeekends ==
    (ret # NoValue /\ ret.success) =>
        \A k \in 1..Len(ret.anomalies) :
            LET row == FlaggedRow(ret.anomalies[k])
                features == prepare_features(Expenses(args.store))
                saturday_or_sunday == row.day_of_week \in {5, 6}
                reason == ret.anomalies[k].reason
            IN /\ Contains(reason, WeekendClause) <=>
                      (saturday_or_sunday /\ ExceedsMean(row, features, 1))
               /\ reason # <<>>
               /\ (~ExceedsMean(row, features, 2) /\ ~row.far_above_recent
                      /\ ~Contains(reason, WeekendClause)) => reason = GenericReason

AllFinished == \A t \in Threads : threads[t].pc = "done"

(* C29: for every interleaving of concurrently running get_category_forecast
   requests, the refit path included, once all of them have finished
   sys.stderr is the original stream and that stream is open. *)
C29_StderrRestored ==
    AllFinished => sys_stderr = "stderr" /\ "stderr" \notin closed

====
